---- MODULE Spec2Model ----
(***************************************************************************)
(* Sign-language resolution and video-synthesis pipeline of the speech     *)
(* assistant backend: GestureCodec (services/sigml_generator.py),          *)
(* LibraryIndex (services/asl_video_library.py), SignResolver              *)
(* (services/hybrid_sign_service.py) and SequenceComposer                  *)
(* (services/video_concatenator.py).                                       *)
(*                                                                         *)
(* Strings whose characters matter (tokens, file stems) are sequences of   *)
(* one-character strings; markup documents are records holding the data   *)
(* the f-strings interpolate.  A Python call either returns or raises:     *)
(* Return(v) / Raise(e).                                                   *)
(***************************************************************************)
EXTENDS Integers, Sequences, FiniteSets, TLC

VARIABLES
    libFiles,     \* files present in backend/asl_video_library/
    fingerFiles,  \* letters L for which asl_fingerspelling/L.mp4 exists
    indexFile,    \* asl_video_library/video_index.json
    index,        \* ASLVideoLibrary._index
    finger,       \* ASLVideoLibrary._finger
    lexiconFile,  \* sigml_lexicon/asl_lexicon.json
    lexicon,      \* SiGMLGenerator.lexicon
    out,          \* outcome of the last public operation of the resolver side
    ffmpeg,       \* shutil.which("ffmpeg") finds the toolchain
    inputs,       \* the video paths that exist on disk
    cache,        \* artifacts in concatenated_sequences/: path -> content
    tmpFiles,     \* temporary files of the composer that exist on disk
    req,          \* the concatenate() calls: position, arguments and locals
    okSince,      \* lists composed successfully with nothing changed since
    now,          \* the clock time.time() reads, in ticks
    calls,        \* number of concatenate() calls made so far
    dirOrder,     \* the order in which the file system lists the library's names
    reader,       \* the thread running get_sign_video: position and locals
    rebuilder,    \* the thread running refresh(): position
    sigml_generator, \* the module global _sigml_generator holds an instance
    llm_service,  \* the LLMClient shared by the routes: its two histories
    posts         \* the POST /deaf and POST /visual requests: position and locals

libThreads == <<dirOrder, reader, rebuilder>>
libVars == <<libFiles, fingerFiles, indexFile, index, finger, libThreads>>
lexVars == <<lexiconFile, lexicon, sigml_generator>>
apiVars == <<llm_service, posts>>
resolverVars == <<libFiles, fingerFiles, indexFile, index, finger, libThreads,
                  lexiconFile, lexicon, sigml_generator, out>>
composerVars == <<ffmpeg, inputs, cache, tmpFiles, req, okSince, now, calls>>
vars == <<libFiles, fingerFiles, indexFile, index, finger, lexiconFile, lexicon, out,
          ffmpeg, inputs, cache, tmpFiles, req, okSince, now, calls,
          dirOrder, reader, rebuilder, sigml_generator, llm_service, posts>>

\* Python's None, and the possible contents of a persisted JSON store.
None == [py |-> "None"]
Stored(data) == [state |-> "json", data |-> data]
Corrupt == [state |-> "corrupt"]
Missing == [state |-> "missing"]
Return(v) == [kind |-> "return", value |-> v]
Raise(e) == [kind |-> "raise", value |-> e]

(***************************************************************************)
(* Characters: str.upper(), str.isalpha(), str.strip()                     *)
(***************************************************************************)
UpperLetters ==
    <<"A","B","C","D","E","F","G","H","I","J","K","L","M",
      "N","O","P","Q","R","S","T","U","V","W","X","Y","Z">>
LowerLetters ==
    <<"a","b","c","d","e","f","g","h","i","j","k","l","m",
      "n","o","p","q","r","s","t","u","v","w","x","y","z">>
AZ == {UpperLetters[i] : i \in 1..26}
az == {LowerLetters[i] : i \in 1..26}

isalpha(c) == c \in AZ \cup az

upperChar(c) ==
    IF c \in az THEN UpperLetters[CHOOSE i \in 1..26 : LowerLetters[i] = c] ELSE c

upper(s) == [i \in 1..Len(s) |-> upperChar(s[i])]

isspace(c) == c = " "

RECURSIVE lstrip(_)
lstrip(s) == IF s # <<>> /\ isspace(Head(s)) THEN lstrip(Tail(s)) ELSE s

RECURSIVE rstrip(_)
rstrip(s) ==
    IF s # <<>> /\ isspace(s[Len(s)]) THEN rstrip(SubSeq(s, 1, Len(s) - 1)) ELSE s

strip(s) == rstrip(lstrip(s))

(***************************************************************************)
(* GestureCodec: SiGMLGenerator                                            *)
(***************************************************************************)
hamnosys_handshapes ==
    "flat" :> "hamflathand" @@ "fist" :> "hamfist" @@ "1" :> "hamfinger2" @@
    "5" :> "hamfinger5" @@ "w" :> "hamfinger23" @@ "y" :> "hampinky" @@
    "3" :> "hamfinger23" @@ "x" :> "hamfinger2345" @@
    "5-claw" :> "hamfinger5spread" @@ "curved" :> "hamfingerbendmod" @@
    "a" :> "hamfist" @@ "flat-o" :> "hamflathand"

hamnosys_locations ==
    "forehead" :> "hamloc_forehead" @@ "chin" :> "hamloc_chin" @@
    "chest" :> "hamloc_chest" @@ "neutral" :> "hamloc_neutral" @@
    "cheek" :> "hamloc_cheek" @@ "face" :> "hamloc_face" @@
    "mouth" :> "hamloc_mouth"

hamnosys_movements ==
    "forward" :> "hammoveforward" @@ "downward" :> "hammovedown" @@
    "upward" :> "hammoveup" @@ "circular" :> "hammovecircle" @@
    "tap" :> "hammoveTap" @@ "wave" :> "hammovewave" @@
    "wiggle" :> "hammovewiggle" @@ "side-to-side" :> "hammoveLR" @@
    "away-salute" :> "hammoveforward" @@ "forward-down" :> "hammoveDL" @@
    "nod" :> "hammovedown" @@ "snap-close" :> "hammoveclose" @@
    "twist-down" :> "hammoverotate" @@ "circular-up" :> "hammovecircleup" @@
    "downward-quick" :> "hammovedown" @@ "downward-twice" :> "hammovedown" @@
    "backward" :> "hammoveback" @@ "tap-twice" :> "hammoveTap" @@
    "circular-small" :> "hammovecircle" @@ "rotate-outward" :> "hammoverotate" @@
    "toward-body" :> "hammoveback" @@ "pull-toward" :> "hammoveback" @@
    "flick-up" :> "hammoveup" @@ "wiggle-fingers" :> "hammovewiggle" @@
    "circular-clock" :> "hammovecircle"

\* dict.get(key, default)
DictGet(d, key, default) == IF key \in DOMAIN d THEN d[key] ELSE default

\* The <hamgestural_sign gloss=...> fragment of one lexicon sign.
create_sigml_sign(handshape, location, movement, description) ==
    [tag       |-> "hamgestural_sign",
     gloss     |-> description,
     handshape |-> DictGet(hamnosys_handshapes, handshape, "hamflathand"),
     location  |-> DictGet(hamnosys_locations, location, "hamloc_neutral"),
     direction |-> DictGet(hamnosys_movements, movement, "hammoveforward")]

create_default_lexicon ==
     <<"H","E","L","L","O">> :> create_sigml_sign("flat", "forehead", "away-salute", "Hello greeting sign") @@
     <<"G","O","O","D","B","Y","E">> :> create_sigml_sign("flat", "chest", "wave", "Goodbye wave") @@
     <<"P","L","E","A","S","E">> :> create_sigml_sign("flat", "chest", "circular", "Please - circular motion on chest") @@
     <<"T","H","A","N","K">> :> create_sigml_sign("flat", "chin", "forward-down", "Thank you - hand from chin outward") @@
     <<"S","O","R","R","Y">> :> create_sigml_sign("fist", "chest", "circular", "Sorry - circular motion on chest") @@
     <<"W","H","A","T">> :> create_sigml_sign("5", "neutral", "wiggle-fingers", "What - wiggle fingers") @@
     <<"W","H","E","R","E">> :> create_sigml_sign("1", "neutral", "side-to-side", "Where - point finger side to side") @@
     <<"W","H","E","N">> :> create_sigml_sign("1", "neutral", "circular-clock", "When - circular motion like clock") @@
     <<"W","H","O">> :> create_sigml_sign("1", "chin", "circular-small", "Who - circular motion near chin") @@
     <<"W","H","Y">> :> create_sigml_sign("y", "forehead", "wiggle", "Why - Y handshape at forehead") @@
     <<"H","O","W">> :> create_sigml_sign("curved", "neutral", "rotate-outward", "How - curved hands rotate") @@
     <<"G","O">> :> create_sigml_sign("1", "neutral", "forward", "Go - point forward") @@
     <<"C","O","M","E">> :> create_sigml_sign("1", "neutral", "toward-body", "Come - point toward body") @@
     <<"H","E","L","P">> :> create_sigml_sign("flat", "chest", "upward", "Help - one hand lifts other") @@
     <<"W","A","N","T">> :> create_sigml_sign("5-claw", "neutral", "pull-toward", "Want - claw hands pull toward body") @@
     <<"N","E","E","D">> :> create_sigml_sign("x", "neutral", "downward", "Need - X handshape moves down") @@
     <<"K","N","O","W">> :> create_sigml_sign("flat", "forehead", "tap", "Know - tap forehead") @@
     <<"U","N","D","E","R","S","T","A","N","D">> :> create_sigml_sign("1", "forehead", "flick-up", "Understand - finger flicks up from forehead") @@
     <<"Y","E","S">> :> create_sigml_sign("fist", "neutral", "nod", "Yes - fist nods like head") @@
     <<"N","O">> :> create_sigml_sign("3", "neutral", "snap-close", "No - fingers snap together") @@
     <<"G","O","O","D">> :> create_sigml_sign("flat", "chin", "forward-down", "Good - hand from mouth outward") @@
     <<"B","A","D">> :> create_sigml_sign("flat", "chin", "twist-down", "Bad - hand from mouth twists down") @@
     <<"H","A","P","P","Y">> :> create_sigml_sign("flat", "chest", "circular-up", "Happy - hand circles upward on chest") @@
     <<"S","A","D">> :> create_sigml_sign("5", "face", "downward", "Sad - hands move down face") @@
     <<"N","O","W">> :> create_sigml_sign("y", "neutral", "downward-quick", "Now - Y hands drop quickly") @@
     <<"T","O","D","A","Y">> :> create_sigml_sign("y", "neutral", "downward-twice", "Today - Y hands drop twice") @@
     <<"T","O","M","O","R","R","O","W">> :> create_sigml_sign("a", "cheek", "forward", "Tomorrow - A handshape from cheek forward") @@
     <<"Y","E","S","T","E","R","D","A","Y">> :> create_sigml_sign("a", "cheek", "backward", "Yesterday - A handshape from cheek backward") @@
     <<"W","A","T","E","R">> :> create_sigml_sign("w", "chin", "tap", "Water - W handshape taps chin") @@
     <<"F","O","O","D">> :> create_sigml_sign("flat-o", "mouth", "tap", "Food - fingers to mouth") @@
     <<"H","O","M","E">> :> create_sigml_sign("flat-o", "cheek", "tap-twice", "Home - fingers tap cheek area")

asl_alphabet ==
    "A" :> "hamfist" @@ "B" :> "hamflathand" @@ "C" :> "hamceeall" @@
    "D" :> "hamfinger2" @@ "E" :> "hamfingerbendmod" @@ "F" :> "hamfinger2345" @@
    "G" :> "hamfinger2" @@ "H" :> "hamfinger23" @@ "I" :> "hampinky" @@
    "J" :> "hampinky" @@ "K" :> "hamfinger23" @@ "L" :> "hamfinger2" @@
    "M" :> "hamflathand" @@ "N" :> "hamflathand" @@ "O" :> "hamflathand" @@
    "P" :> "hamfinger2" @@ "Q" :> "hamfinger2" @@ "R" :> "hamfinger23cross" @@
    "S" :> "hamfist" @@ "T" :> "hamfist" @@ "U" :> "hamfinger23" @@
    "V" :> "hamfinger23" @@ "W" :> "hamfinger234" @@ "X" :> "hamfinger2" @@
    "Y" :> "hampinkymod" @@ "Z" :> "hamfinger2"

\* One <sign_manual> fragment of the manual alphabet.
fingerspell_letter(letter) ==
    [tag       |-> "sign_manual",
     letter    |-> letter,
     handshape |-> DictGet(asl_alphabet, letter, "hamflathand"),
     location  |-> "hamloc_neutral"]

RECURSIVE fingerspell_letters(_)
fingerspell_letters(word) ==
    IF word = <<>> THEN <<>>
    ELSE (IF isalpha(Head(word))
          THEN <<fingerspell_letter(upperChar(Head(word)))>>
          ELSE <<>>) \o fingerspell_letters(Tail(word))

\* The FINGERSPELL-<word> fragment: one letter fragment per alphabetic char.
fingerspell_word(word) ==
    [tag     |-> "fingerspell",
     gloss   |-> word,
     letters |-> fingerspell_letters(word)]

\* Variant of tokens_to_sigml that leaves out the tokens the lexicon lacks.
tokens_to_sigml_known_only(lex, tokens) ==
    LET Known(t) == upper(t) \in DOMAIN lex
        known    == SelectSeq(tokens, Known)
    IN [tag   |-> "sigml",
        signs |-> [i \in 1..Len(known) |-> lex[upper(known[i])]]]

\* The complete <sigml> document: one fragment per token, in order.
tokens_to_sigml(lex, tokens) ==
    [tag   |-> "sigml",
     signs |-> [i \in 1..Len(tokens) |->
                  IF upper(tokens[i]) \in DOMAIN lex
                  THEN lex[upper(tokens[i])]
                  ELSE fingerspell_word(upper(tokens[i]))]]

add_sign_alone(lex, word, handshape, location, movement, description) ==
    upper(word) :> create_sigml_sign(handshape, location, movement, description)

\* self.lexicon[word.upper()] = sigml (lines 424-425): the dictionary after
\* the assignment.
add_sign(lex, word, handshape, location, movement, description) ==
    (upper(word) :> create_sigml_sign(handshape, location, movement, description)) @@ lex

\* _load_or_create_lexicon (lines 22-30) on the state of asl_lexicon.json:
\* an existing file is parsed with no handler around json.load, a missing
\* one is replaced by the default lexicon.
load_or_create_lexicon(file) ==
    CASE file.state = "json"    -> Return(file.data)
      [] file.state = "corrupt" -> Raise("JSONDecodeError")
      [] file.state = "missing" -> Return(create_default_lexicon)

\* The state of asl_lexicon.json after _save_lexicon(lex) (lines 32-35):
\* written, untouched when open() failed, truncated when the dump failed.
save_lexicon(file, lex, save) ==
    CASE save = "ok"        -> Stored(lex)
      [] save = "open"      -> file
      [] save = "truncated" -> Corrupt

get_lexicon_size(lex) == Cardinality(DOMAIN lex)

\* Variant of sigml_has_sign that looks the word up as it is written.
sigml_has_sign_as_written(lex, word) == word \in DOMAIN lex

\* SiGMLGenerator.has_sign: `word.upper() in self.lexicon`
sigml_has_sign(lex, word) == upper(word) \in DOMAIN lex

(***************************************************************************)
(* LibraryIndex: ASLVideoLibrary                                           *)
(***************************************************************************)
\* Durations are in hundredths of a second.
DefaultDuration == 300
FingerDuration == 80

\* What ffprobe reports for a clip when it runs to the end.
Measured(path) == 120

\* _ffprobe_duration: the reported duration when the run exits with 0, the
\* default after a nonzero exit and after any exception, a timeout included.
ffprobe_duration(outcome, path) ==
    IF outcome = "ok" THEN Measured(path) ELSE DefaultDuration

\* A file of the library directory; the record also stands for str(path).
File(stem, ext) == [stem |-> stem, ext |-> ext]

\* stem.split("_", 1)[0]
RECURSIVE BeforeUnderscore(_)
BeforeUnderscore(stem) ==
    IF stem = <<>> \/ Head(stem) = "_" THEN <<>>
    ELSE <<Head(stem)>> \o BeforeUnderscore(Tail(stem))

\* len(stem.split("_", 1)) > 1
HasUnderscore(stem) == \E i \in 1..Len(stem) : stem[i] = "_"

\* One iteration of the scan loop of _build_index over file vf.
IndexStep(idx, vf, dur) ==
    LET token == upper(BeforeUnderscore(vf.stem))
        base  == IF token \in DOMAIN idx THEN idx
                 ELSE (token :> [primary |-> None, variants |-> <<>>,
                                 duration |-> DefaultDuration]) @@ idx
    IN IF HasUnderscore(vf.stem)
       THEN [base EXCEPT ![token].variants = Append(@, vf)]
       ELSE [base EXCEPT ![token].primary = vf, ![token].duration = dur[vf]]

\* The scan loop of _build_index over the files in listing order; dur[vf] is
\* what _ffprobe_duration answers for vf.
RECURSIVE ScanFiles(_, _, _)
ScanFiles(idx, files, dur) ==
    IF files = <<>> THEN idx
    ELSE ScanFiles(IndexStep(idx, Head(files), dur), Tail(files), dur)

\* Variant of build_index that leaves out the files whose duration probe
\* answered the default.
build_index_probed_only(files, dur) ==
    LET Probed(f) == dur[f] # DefaultDuration
    IN ScanFiles(<<>>, SelectSeq(files, Probed), dur)

build_index(files, dur) == ScanFiles(<<>>, files, dur)

\* _build_finger: letter -> path of the clip, for the letters whose clip exists
build_finger(present) == [letter \in (AZ \cap present) |-> File(<<letter>>, "mp4")]

\* Listings glob("*.mp4") + glob("*.webm") can produce for the set fs of files.
SeqsOf(S) ==
    {q \in [1..Cardinality(S) -> S] : \A i, j \in 1..Cardinality(S) : q[i] = q[j] => i = j}

Listings(fs) ==
    {a \o b : a \in SeqsOf({f \in fs : f.ext = "mp4"}),
              b \in SeqsOf({f \in fs : f.ext = "webm"})}

\* The listing glob("*.mp4") + glob("*.webm") produces for the files fs when
\* the file system lists names in the order `order`.
ListingIn(order, fs) ==
    LET Mp4(f)  == f \in fs /\ f.ext = "mp4"
        Webm(f) == f \in fs /\ f.ext = "webm"
    IN SelectSeq(order, Mp4) \o SelectSeq(order, Webm)

\* Variant of valid_entries that keeps every entry of the persisted index.
valid_entries_unchecked(raw, files) == raw

\* {k: v for k, v in raw.items() if v.get("primary") and Path(v["primary"]).exists()}
valid_entries(raw, files) ==
    [k \in {t \in DOMAIN raw : raw[t].primary # None /\ raw[t].primary \in files} |-> raw[k]]

\* _load: the index the constructor ends with, given the persisted index
\* file and `built`, what _build_index returns if it is called.  A file that
\* cannot be read or parsed raises inside the try and leads to the rebuild.
load(file, files, built) ==
    IF file.state = "json" THEN valid_entries(file.data, files) ELSE built

\* The library's threads at rest.  A reader keeps the token it was given and
\* the index it read at line 90; `ok` holds the consistent (index, letter map)
\* states that were current while it ran.
ReaderIdle == [pc |-> "idle", token |-> <<>>, idx |-> <<>>, ok |-> {}]
RebuilderIdle == [pc |-> "idle", pre |-> <<>>]

\* Variant of can_fingerspell that accepts every word.
can_fingerspell_always(fng, word) == TRUE

can_fingerspell(fng, word) ==
    \A i \in 1..Len(word) : ~isalpha(word[i]) \/ upperChar(word[i]) \in DOMAIN fng

RECURSIVE fingerspell_clips(_, _)
fingerspell_clips(fng, word) ==
    IF word = <<>> THEN <<>>
    ELSE (IF isalpha(Head(word)) /\ upperChar(Head(word)) \in DOMAIN fng
          THEN <<[letter     |-> upperChar(Head(word)),
                  video_path |-> fng[upperChar(Head(word))],
                  duration   |-> FingerDuration]>>
          ELSE <<>>) \o fingerspell_clips(fng, Tail(word))

lib_fingerspell(fng, word) ==
    [token          |-> upper(word),
     type           |-> "fingerspelling",
     letters        |-> fingerspell_clips(fng, word),
     total_duration |-> Len(fingerspell_clips(fng, word)) * FingerDuration,
     source         |-> "fingerspelling"]

\* ASLVideoLibrary.get_sign_video: metadata of the recorded video, else the
\* fingerspelling composite, else None.
get_sign_video(idx, fng, files, sign_token) ==
    LET token == upper(strip(sign_token))
    IN IF token \in DOMAIN idx /\ idx[token].primary # None
          /\ idx[token].primary \in files
       THEN [token        |-> token,
             video_path   |-> idx[token].primary,
             duration     |-> idx[token].duration,
             has_variants |-> idx[token].variants # <<>>,
             type         |-> "real_human",
             source       |-> "library"]
       ELSE IF can_fingerspell(fng, token) THEN lib_fingerspell(fng, token)
       ELSE None

lib_has_sign(idx, token) == upper(strip(token)) \in DOMAIN idx

list_signs(idx) == DOMAIN idx

coverage_stats(idx, fng) ==
    [total_signs            |-> Cardinality(DOMAIN idx),
     signs_with_variants    |-> Cardinality({k \in DOMAIN idx : idx[k].variants # <<>>}),
     fingerspelling_letters |-> Cardinality(DOMAIN fng),
     can_fingerspell        |-> Cardinality(DOMAIN fng) = 26]

\* The public methods class ASLVideoLibrary defines.  Calling any other
\* attribute of the instance raises AttributeError.
ASLVideoLibraryMethods ==
    {"get_sign_video", "get_sequence", "has_sign", "list_signs",
     "coverage_stats", "refresh"}

\* self.video_library.<name>(arg) as evaluated by the interpreter.
video_library_call(idx, fng, files, name, arg) ==
    IF name \notin ASLVideoLibraryMethods THEN Raise("AttributeError")
    ELSE CASE name = "get_sign_video" -> Return(get_sign_video(idx, fng, files, arg))
           [] name = "has_sign"       -> Return(lib_has_sign(idx, arg))
           [] name = "list_signs"     -> Return(list_signs(idx))
           [] name = "coverage_stats" -> Return(coverage_stats(idx, fng))
           [] OTHER                   -> Return(None)

(***************************************************************************)
(* SignResolver: HybridSignService                                         *)
(***************************************************************************)
get_sign_data(idx, fng, files, lex, token) ==
    LET token_upper == upper(token)
        has_video   == video_library_call(idx, fng, files, "has_video", token_upper)
        video_path  == video_library_call(idx, fng, files, "get_video_path", token_upper)
    IN IF has_video.kind = "raise" THEN has_video
       ELSE IF has_video.value = TRUE
       THEN IF video_path.kind = "raise" THEN video_path
            ELSE Return([method    |-> "video",
                         video_url |-> video_path.value,
                         token     |-> token,
                         status    |-> "success"])
       ELSE IF sigml_has_sign(lex, token_upper)
       THEN Return([method |-> "sigml",
                    sigml  |-> tokens_to_sigml(lex, <<token_upper>>),
                    token  |-> token,
                    status |-> "success"])
       ELSE Return([method |-> "fingerspell",
                    sigml  |-> tokens_to_sigml(lex, <<token_upper>>),
                    token  |-> token,
                    status |-> "fallback"])

\* [self.get_sign_data(token) for token in tokens]: the first exception ends
\* the comprehension.
get_sign_sequence(idx, fng, files, lex, tokens) ==
    LET each == [i \in 1..Len(tokens) |-> get_sign_data(idx, fng, files, lex, tokens[i])]
        bad  == {i \in 1..Len(tokens) : each[i].kind = "raise"}
    IN IF bad # {} THEN each[CHOOSE i \in bad : \A j \in bad : i <= j]
       ELSE Return([i \in 1..Len(tokens) |-> each[i].value])

get_combined_sigml(lex, tokens) == Return(tokens_to_sigml(lex, tokens))

get_statistics(idx, fng, files, lex) ==
    LET size  == video_library_call(idx, fng, files, "get_library_size", None)
        signs == video_library_call(idx, fng, files, "get_available_signs", None)
    IN IF size.kind = "raise" THEN size
       ELSE IF signs.kind = "raise" THEN signs
       ELSE Return([video_library_size |-> size.value,
                    sigml_lexicon_size |-> get_lexicon_size(lex),
                    total_coverage     |-> size.value + get_lexicon_size(lex),
                    available_videos   |-> signs.value])

(***************************************************************************)
(* SequenceComposer: VideoConcat                                           *)
(***************************************************************************)
\* Optional[str]: None is the empty tuple, a path p is <<p>>.
NoPath == <<>>
Some(p) == <<p>>

\* Variant of has_ffmpeg that takes the toolchain for installed.
has_ffmpeg_assumed(which) == TRUE

\* _has_ffmpeg: `shutil.which("ffmpeg") is not None`
has_ffmpeg(which) == which

\* "|".join(paths)
RECURSIVE join(_)
join(paths) ==
    IF paths = <<>> THEN ""
    ELSE IF Len(paths) = 1 THEN paths[1]
    ELSE paths[1] \o "|" \o join(Tail(paths))

\* hashlib.md5(text).hexdigest()[:12].  The digest is idealised as
\* collision-free: it is written as the text it digests, so two keys are
\* equal exactly when the digested texts are.
md5_hexdigest_12(text) == "md5(" \o text \o ")"

cache_key(paths) == md5_hexdigest_12(join(paths))

\* _CACHE_DIR / f"{key}.mp4"
cache_path(key) == "concatenated_sequences/" \o key \o ".mp4"

\* Variant of valid_paths that keeps the paths that do not exist.
valid_paths_unfiltered(video_paths, existing) == video_paths

\* [p for p in video_paths if Path(p).exists()]
RECURSIVE valid_paths(_, _)
valid_paths(video_paths, existing) ==
    IF video_paths = <<>> THEN <<>>
    ELSE (IF Head(video_paths) \in existing THEN <<Head(video_paths)>> ELSE <<>>)
         \o valid_paths(Tail(video_paths), existing)

\* Variant of cache_hit that never finds the cached artifact.
cache_hit_never(force, out_path, files) == FALSE

\* `not force and out_path.exists()`
cache_hit(force, out_path, files) == ~force /\ out_path \in files

\* `crossfade and len(normalised) > 1`
use_xfade(crossfade, normalised) == crossfade /\ Len(normalised) > 1

\* Variant of nothing_to_concatenate without the single-clip shortcut.
nothing_to_concatenate_never(valid) == FALSE

\* `len(valid) == 1`: nothing to concatenate
nothing_to_concatenate(valid) == Len(valid) = 1

\* Variant of xfade_falls_back that gives up when the xfade run raises.
xfade_falls_back_on_exit_only(outcome) == outcome = "nonzero"

\* Whether _concat_xfade hands the clips to _concat_simple after its ffmpeg
\* run ended with `outcome`: it does after a nonzero exit (line 261) and
\* after any exception, a timeout included (line 264).
xfade_falls_back(outcome) == outcome \in {"nonzero", "exception"}

\* Variant of normalise_ok that keeps the output of every run.
normalise_ok_always(outcome) == TRUE

\* Whether _normalise appends the output of a run that ended with `outcome`:
\* `result.returncode == 0` (line 169); a nonzero exit and any exception, a
\* timeout included, unlink it instead (lines 176 and 180).
normalise_ok(outcome) == outcome = "ok"

\* Variant of more_clips that leaves the loop after the first clip.
more_clips_never(i, valid) == FALSE

\* `for src in paths` (line 149): the loop of _normalise goes on after clip i.
more_clips(i, valid) == i < Len(valid)

\* Variant of concat_simple_ok that takes a run that raised for a success.
concat_simple_ok_unless_exit(outcome) == outcome # "nonzero"

\* What _concat_simple returns after its ffmpeg run ended with `outcome`:
\* `r.returncode == 0` (line 204), False after any exception, a timeout
\* included (lines 205-207).
concat_simple_ok(outcome) == outcome = "ok"

\* _probe_duration of the composer (lines 267-283): as _ffprobe_duration.
probe_duration(outcome, path) ==
    IF outcome = "ok" THEN Measured(path) ELSE DefaultDuration

\* VideoConcat(crossfade_sec=0.25), in hundredths of a second.
CrossfadeSec == 25

\* The label of the stream a transition reads first or writes: "[0:v]" for
\* the first clip, "[vx{i}]" for the output of transition i.
VLabel(i) == IF i = 0 THEN <<"0:v">> ELSE <<"vx", i>>

\* max(0, offset)
Max0(offset) == IF offset > 0 THEN offset ELSE 0

\* The variable `offset` of _concat_xfade after iteration i of its loop:
\* `offset += durations[i - 1] - dur` from 0.
RECURSIVE running_offset(_, _, _)
running_offset(durations, dur, i) ==
    IF i = 0 THEN 0
    ELSE running_offset(durations, dur, i - 1) + durations[i] - dur

\* Variant of xfade_filter that takes one window off the summed durations.
xfade_filter_one_window(durations, dur) ==
    [i \in 1..(Len(durations) - 1) |->
        [first    |-> VLabel(i - 1),
         second   |-> i,
         duration |-> dur,
         offset   |-> Max0(running_offset(durations, 0, i) - dur),
         label    |-> VLabel(i)]]

\* filter_parts of _concat_xfade (lines 224-238): transition i fades from
\* the previous output into input i at max(0, offset).  Inputs are numbered
\* from 0, so input i is the clip that follows i clips.
xfade_filter(durations, dur) ==
    [i \in 1..(Len(durations) - 1) |->
        [first    |-> VLabel(i - 1),
         second   |-> i,
         duration |-> dur,
         offset   |-> Max0(running_offset(durations, dur, i)),
         label    |-> VLabel(i)]]

\* A temporary file of _normalise: the n-th clip of the call numbered `call`,
\* re-encoded from src.  NamedTemporaryFile never hands out a name twice.
Tmp(call, n, src, t) == [call |-> call, n |-> n, src |-> src, mtime |-> t]

\* Content of a file at a cache path: which sources it was composed from,
\* by which strategy, and whether the writing ffmpeg run completed.
Artifact(clips, how, complete, t) ==
    [clips |-> clips, how |-> how, complete |-> complete, mtime |-> t]

Sources(normalised) == [k \in 1..Len(normalised) |-> normalised[k].src]

Range(q) == {q[k] : k \in 1..Len(q)}

Requests == {"r1"}

IdleRequest ==
    [pc          |-> "idle",
     video_paths |-> <<>>,
     crossfade   |-> FALSE,
     force       |-> FALSE,
     valid       |-> <<>>,
     out_path    |-> "",
     i           |-> 0,
     dst         |-> <<>>,
     normalised  |-> <<>>,
     results     |-> <<>>,
     probe       |-> "none",
     durations   |-> <<>>,
     xfade       |-> "none",
     simple      |-> "none",
     tool        |-> FALSE,
     existing    |-> <<>>,
     repeat      |-> FALSE,
     call        |-> 0,
     invoked     |-> 0,
     created     |-> 0,
     result      |-> NoPath]

(***************************************************************************)
(* The REST routes and the language-model client: services/llm.py,         *)
(* routes/api_deaf.py, routes/api_visual.py                                *)
(***************************************************************************)
\* add_to_history keeps 50 messages; the model keeps HistoryLimit.
HistoryLimit == 3

Message(role, content) == [role |-> role, content |-> content]

\* LLMClient.__init__: the configuration and two empty histories.
LLMClient(config) == [config |-> config, voice_history |-> <<>>, text_history |-> <<>>]

HistoryOf(client, mode) ==
    IF mode = "text" THEN client.text_history ELSE client.voice_history

WithHistory(client, mode, history) ==
    IF mode = "text" THEN [client EXCEPT !.text_history = history]
    ELSE [client EXCEPT !.voice_history = history]

\* history[-n:]
Last(history, n) ==
    IF Len(history) <= n THEN history
    ELSE SubSeq(history, Len(history) - n + 1, Len(history))

\* Variant of trim_history that keeps the most recent messages only.
trim_history_recent_only(history) == Last(history, HistoryLimit)

\* Lines 103-114: a history that outgrew the limit keeps its system message
\* when it starts with one, and the most recent messages.
trim_history(history) ==
    IF Len(history) > HistoryLimit
    THEN IF history[1].role = "system"
         THEN <<history[1]>> \o Last(history, HistoryLimit - 1)
         ELSE Last(history, HistoryLimit)
    ELSE history

\* Variant of add_to_history that never trims.
add_to_history_unbounded(client, role, content, mode) ==
    WithHistory(client, mode, Append(HistoryOf(client, mode), Message(role, content)))

\* LLMClient.add_to_history: append, then trim, the system message staying
\* first.
add_to_history(client, role, content, mode) ==
    LET appended == Append(HistoryOf(client, mode), Message(role, content))
    IN WithHistory(client, mode, trim_history(appended))

\* LLMClient.clear_history(keep_system_prompt=True, mode)
clear_history(client, mode) ==
    LET target == HistoryOf(client, mode)
    IN WithHistory(client, mode,
                   IF target # <<>> /\ target[1].role = "system" THEN <<target[1]>>
                   ELSE <<>>)

\* How the call to the language model ends: a reply with or without text,
\* a requests.RequestException, an HTTP 400, or any other exception.
Reply(kind, text) == [kind |-> kind, text |-> text]

Replies ==
    {Reply("ok", "a1"), Reply("ok", ""), Reply("request_error", "sorry"),
     Reply("http_400", "sorry"), Reply("exception", "unexpected")}

\* get_response up to the call of the model (lines 132-160): the user's
\* input joins the history.
get_response_sends(client, user_input, add, mode) ==
    IF user_input # "" /\ add THEN add_to_history(client, "user", user_input, mode)
    ELSE client

\* get_response from the end of the call on (lines 236-279).
get_response_ends(client, reply, add, mode) ==
    CASE reply.kind = "ok" ->
            IF reply.text # "" /\ add
            THEN add_to_history(client, "assistant", reply.text, mode)
            ELSE client
      [] reply.kind = "request_error" ->
            IF add THEN add_to_history(client, "assistant", reply.text, mode) ELSE client
      [] reply.kind = "http_400" ->
            IF add
            THEN clear_history(add_to_history(client, "assistant", reply.text, mode), mode)
            ELSE client
      [] reply.kind = "exception" ->
            add_to_history(client, "assistant", reply.text, mode)

\* get_asl_tokens: a second call of the model that is not to be recorded,
\* in the default mode.
get_asl_tokens(client, text, reply) ==
    IF text = "" THEN client
    ELSE get_response_ends(get_response_sends(client, text, FALSE, "voice"),
                           reply, FALSE, "voice")

\* temp_llm = LLMClient(api_endpoint=llm_svc.api_endpoint, ...): a client of
\* its own for the request, with the configuration of the shared one.
temp_client(llm_svc) == LLMClient(llm_svc.config)

\* The history the route works on: text for /deaf, voice for /visual.
ModeOf(endpoint) == IF endpoint = "deaf" THEN "text" ELSE "voice"

Posts == {"p1", "p2"}

IdlePost ==
    [pc |-> "idle", endpoint |-> "deaf", history |-> <<>>, user_text |-> "",
     temp_llm |-> LLMClient("cfg"), reply |-> Reply("none", ""),
     updated_history |-> <<>>]

InitApi ==
    /\ llm_service = LLMClient("cfg")
    /\ posts = [p \in Posts |-> IdlePost]

(***************************************************************************)
(* Bounds of the resolver-side model                                       *)
(***************************************************************************)
MaxTokens == 2           \* longest token sequence handed to the resolver
MaxLexiconAdds == 1      \* runtime additions to the lexicon per behaviour

T_HELLO == <<"H","E","L","L","O">>
T_hello == <<"h","e","l","l","o">>
T_HI    == <<"H","I">>
T_XYZZY == <<"X","Y","Z","Z","Y","1","2","3">>
T_42    == <<"4","2">>

Tokens == {T_HELLO, T_hello, T_HI, T_XYZZY, T_42}

\* Sequences are drawn from the tokens of the two-token scenario.
SeqTokens == {T_HELLO, T_XYZZY}

TokenSeqs == UNION {[1..n -> SeqTokens] : n \in 0..MaxTokens}

LibFileUniverse ==
    {File(T_HELLO, "mp4"), File(<<"h","i">>, "webm"), File(<<"H","I","_","v","1">>, "mp4")}

Durations == {120, DefaultDuration}

LetterSets == {AZ, AZ \ {"Z"}}

Handshapes == {"fist", "claw"}

(***************************************************************************)
(* Initial state: both singletons constructed with no persisted stores     *)
(***************************************************************************)
InitLibrary ==
    /\ dirOrder = <<>>      \* unused: this side's refresh scans in any order
    /\ reader = ReaderIdle
    /\ rebuilder = RebuilderIdle
    /\ libFiles \in SUBSET LibFileUniverse
    /\ fingerFiles \in LetterSets
    /\ \E listing \in Listings(libFiles), dur \in [libFiles -> Durations] :
          index = build_index(listing, dur)
    /\ indexFile = Stored(index)
    /\ finger = build_finger(fingerFiles)

InitLexicon ==
    /\ lexicon = create_default_lexicon
    /\ lexiconFile = Stored(create_default_lexicon)
    /\ sigml_generator = TRUE

Outcome(op, arg, res) == [op |-> op, arg |-> arg, res |-> res]

NoOutcome == Outcome("none", None, Return(None))

\* The composer right after construction, with an empty cache directory.
ComposerIdle ==
    /\ cache = <<>>
    /\ tmpFiles = {}
    /\ req = [r \in Requests |-> IdleRequest]
    /\ okSince = {}
    /\ now = 0
    /\ calls = 0

InitResolver ==
    /\ InitLibrary
    /\ InitLexicon
    /\ InitApi
    /\ out = NoOutcome
    /\ ffmpeg = TRUE
    /\ inputs = {}
    /\ ComposerIdle

(***************************************************************************)
(* Operations                                                              *)
(***************************************************************************)
\* HybridSignService.get_sign_data(token)
Resolve(token) ==
    /\ out' = Outcome("get_sign_data", token,
                      get_sign_data(index, finger, libFiles, lexicon, token))
    /\ UNCHANGED <<apiVars, libVars, lexVars, composerVars>>

\* HybridSignService.get_sign_sequence(tokens)
ResolveSequence(tokens) ==
    /\ out' = Outcome("get_sign_sequence", tokens,
                      get_sign_sequence(index, finger, libFiles, lexicon, tokens))
    /\ UNCHANGED <<apiVars, libVars, lexVars, composerVars>>

\* HybridSignService.get_statistics()
Statistics ==
    /\ out' = Outcome("get_statistics", None,
                      get_statistics(index, finger, libFiles, lexicon))
    /\ UNCHANGED <<apiVars, libVars, lexVars, composerVars>>

\* HybridSignService.get_combined_sigml(tokens)
Render(tokens) ==
    /\ out' = Outcome("get_combined_sigml", tokens, get_combined_sigml(lexicon, tokens))
    /\ UNCHANGED <<apiVars, libVars, lexVars, composerVars>>

\* ASLVideoLibrary.get_sign_video(token)
Lookup(token) ==
    /\ out' = Outcome("get_sign_video", token,
                      Return(get_sign_video(index, finger, libFiles, token)))
    /\ UNCHANGED <<apiVars, libVars, lexVars, composerVars>>

\* ASLVideoLibrary.refresh(): rescan, persist (a failed write is only
\* logged), then rebuild the letter map.
Refresh(listing, dur, saved) ==
    /\ listing \in Listings(libFiles)
    /\ index' = build_index(listing, dur)
    /\ indexFile' = IF saved THEN Stored(index') ELSE indexFile
    /\ finger' = build_finger(fingerFiles)
    /\ out' = Outcome("refresh", None, Return(None))
    /\ UNCHANGED <<apiVars, libFiles, fingerFiles, libThreads, lexVars, composerVars>>

\* SiGMLGenerator.add_sign_to_lexicon: the entry is set in memory, then the
\* whole lexicon is written; an OSError of the write propagates, leaving the
\* file untouched (open failed) or truncated (dump failed).
AddSign(word, handshape, location, movement, description, save) ==
    /\ Cardinality(DOMAIN lexicon) < Cardinality(DOMAIN create_default_lexicon) + MaxLexiconAdds
       \/ upper(word) \in DOMAIN lexicon
    /\ lexicon' = add_sign(lexicon, word, handshape, location, movement, description)
    /\ lexiconFile' = save_lexicon(lexiconFile, lexicon', save)
    /\ out' = Outcome("add_sign_to_lexicon",
                      [word |-> word, handshape |-> handshape, location |-> location,
                       movement |-> movement, description |-> description],
                      IF save = "ok" THEN Return(TRUE) ELSE Raise("OSError"))
    /\ UNCHANGED <<apiVars, sigml_generator, libVars, composerVars>>

\* The environment adds or removes a recorded video or a letter clip.  `out`
\* is cleared, so that a recorded outcome always belongs to the current state.

AddLibFile(f) ==
    /\ f \notin libFiles
    /\ libFiles' = libFiles \cup {f}
    /\ out' = NoOutcome
    /\ UNCHANGED <<apiVars, fingerFiles, indexFile, index, finger, libThreads, lexVars, composerVars>>

RemoveLibFile(f) ==
    /\ f \in libFiles
    /\ libFiles' = libFiles \ {f}
    /\ out' = NoOutcome
    /\ UNCHANGED <<apiVars, fingerFiles, indexFile, index, finger, libThreads, lexVars, composerVars>>

SetLetterClips(letters) ==
    /\ letters # fingerFiles
    /\ fingerFiles' = letters
    /\ out' = NoOutcome
    /\ UNCHANGED <<apiVars, libFiles, indexFile, index, finger, libThreads, lexVars, composerVars>>

NextResolver ==
    \/ \E token \in Tokens : Resolve(token)
    \/ \E tokens \in TokenSeqs : ResolveSequence(tokens)
    \/ Statistics
    \/ \E listing \in Listings(libFiles), dur \in [libFiles -> Durations] :
          Refresh(listing, dur, TRUE)
    \/ \E handshape \in Handshapes, save \in {"ok", "open", "truncated"} :
          AddSign(T_HI, handshape, "chin", "tap", "added", save)
    \/ \E f \in LibFileUniverse : AddLibFile(f)
    \/ \E f \in LibFileUniverse : RemoveLibFile(f)

SpecResolver == InitResolver /\ [][NextResolver]_vars

(***************************************************************************)
(* GestureCodec on its own: rendering against a lexicon that grows         *)
(***************************************************************************)
InitCodec ==
    /\ dirOrder = <<>>
    /\ reader = ReaderIdle
    /\ rebuilder = RebuilderIdle
    /\ libFiles = {}
    /\ fingerFiles = AZ
    /\ index = build_index(<<>>, <<>>)
    /\ indexFile = Stored(index)
    /\ finger = build_finger(fingerFiles)
    /\ InitLexicon
    /\ InitApi
    /\ out = NoOutcome
    /\ ffmpeg = TRUE
    /\ inputs = {}
    /\ ComposerIdle

RenderSeqs == UNION {[1..n -> Tokens] : n \in 0..MaxTokens}

\* The in-memory lexicon of a process whose generator was never constructed.
NoLexicon == <<>>

SaveOutcomes == {"ok", "open", "truncated"}

\* A restart of the process followed by the first get_sigml_generator()
\* (lines 441-446): SiGMLGenerator() runs _load_or_create_lexicon; when it
\* raises, the global stays None and no request can be served.
CodecStartup(save) ==
    /\ save = "ok" \/ lexiconFile = Missing
    /\ LET loaded == load_or_create_lexicon(lexiconFile)
           created == lexiconFile = Missing
           ok == loaded.kind = "return" /\ (created => save = "ok")
       IN /\ lexiconFile' = IF created
                             THEN save_lexicon(lexiconFile, create_default_lexicon, save)
                             ELSE lexiconFile
          /\ sigml_generator' = ok
          /\ lexicon' = IF ok THEN loaded.value ELSE NoLexicon
          /\ out' = Outcome("SiGMLGenerator.__init__", lexiconFile,
                            IF ok THEN Return(None)
                            ELSE IF created THEN Raise("OSError") ELSE loaded)
    /\ UNCHANGED <<apiVars, libVars, composerVars>>

\* The environment deletes asl_lexicon.json, or damages its contents.
LoseLexiconFile ==
    /\ lexiconFile # Missing
    /\ lexiconFile' = Missing
    /\ out' = NoOutcome
    /\ UNCHANGED <<apiVars, lexicon, sigml_generator, libVars, composerVars>>

GarbleLexiconFile ==
    /\ lexiconFile.state = "json"
    /\ lexiconFile' = Corrupt
    /\ out' = NoOutcome
    /\ UNCHANGED <<apiVars, lexicon, sigml_generator, libVars, composerVars>>

\* SiGMLGenerator.has_sign(word) and SiGMLGenerator.get_lexicon_size()
CodecHasSign(word) ==
    /\ out' = Outcome("SiGMLGenerator.has_sign", word,
                      Return([has_sign |-> sigml_has_sign(lexicon, word),
                              size     |-> get_lexicon_size(lexicon)]))
    /\ UNCHANGED <<apiVars, libVars, lexVars, composerVars>>

AddWords == {T_HI, T_HELLO}

NextCodec ==
    \/ \E tokens \in RenderSeqs : sigml_generator /\ Render(tokens)
    \/ \E word \in AddWords, handshape \in Handshapes, save \in SaveOutcomes :
          sigml_generator /\ AddSign(word, handshape, "chin", "tap", "added", save)
    \/ \E word \in Tokens : sigml_generator /\ CodecHasSign(word)
    \/ \E save \in SaveOutcomes : CodecStartup(save)
    \/ LoseLexiconFile
    \/ GarbleLexiconFile

SpecCodec == InitCodec /\ [][NextCodec]_vars

(***************************************************************************)
(* LibraryIndex on its own: lookups, rebuilds, restarts and a changing     *)
(* media directory                                                         *)
(***************************************************************************)
F_HI    == File(T_HI, "mp4")
F_hi    == File(<<"h","i">>, "mp4")
F_GO_v1 == File(<<"G","O","_","v","1">>, "mp4")

\* HI.mp4 and hi.mp4 both name the sign HI; GO has a variant and no primary.
LibraryUniverse == {F_HI, F_hi, F_GO_v1}

\* The file system lists HI.mp4 before hi.mp4, or after it.
DirOrders == {<<F_HI, F_hi, F_GO_v1>>, <<F_hi, F_HI, F_GO_v1>>}

LibLetterSets == {AZ, AZ \ {"I"}}

T_sp_hi == <<" ","h","i">>

LookupTokens == {T_HI, T_sp_hi, T_42}

\* What one scan's duration probes answer: ffprobe works, or it is missing
\* and every probe answers the default.
Probes(fs) == {[f \in fs |-> ffprobe_duration(o, f)] : o \in {"ok", "nonzero", "exception"}}

\* A library constructed over a directory that had no index file yet.
InitLibraryIndex ==
    /\ libFiles \in SUBSET LibraryUniverse
    /\ dirOrder \in DirOrders
    /\ fingerFiles \in LibLetterSets
    /\ \E dur \in Probes(libFiles) :
          index = build_index(ListingIn(dirOrder, libFiles), dur)
    /\ indexFile = Stored(index)
    /\ finger = build_finger(fingerFiles)
    /\ reader = ReaderIdle
    /\ rebuilder = RebuilderIdle
    /\ InitLexicon
    /\ InitApi
    /\ out = NoOutcome
    /\ ffmpeg = TRUE
    /\ inputs = {}
    /\ ComposerIdle

\* ASLVideoLibrary.has_sign(token)
HasSign(token) ==
    /\ out' = Outcome("has_sign", token, Return(lib_has_sign(index, token)))
    /\ UNCHANGED <<apiVars, libVars, lexVars, composerVars>>

\* The process restarts: ASLVideoLibrary() runs _load.  The index file is
\* written only by a rebuild, and a failed write is only logged.
Startup(dur, saved) ==
    /\ index' = load(indexFile, libFiles,
                     build_index(ListingIn(dirOrder, libFiles), dur))
    /\ indexFile' = IF indexFile.state # "json" /\ saved THEN Stored(index')
                    ELSE indexFile
    /\ finger' = build_finger(fingerFiles)
    /\ reader' = ReaderIdle
    /\ rebuilder' = RebuilderIdle
    /\ out' = Outcome("__init__", indexFile, Return(None))
    /\ UNCHANGED <<apiVars, libFiles, fingerFiles, dirOrder, lexVars, composerVars>>

\* The environment deletes the index file, or leaves it unreadable.
LoseIndexFile ==
    /\ indexFile # Missing
    /\ indexFile' = Missing
    /\ out' = NoOutcome
    /\ UNCHANGED <<apiVars, libFiles, fingerFiles, index, finger, libThreads, lexVars, composerVars>>

GarbleIndexFile ==
    /\ indexFile # Corrupt
    /\ indexFile' = Corrupt
    /\ out' = NoOutcome
    /\ UNCHANGED <<apiVars, libFiles, fingerFiles, index, finger, libThreads, lexVars, composerVars>>

NextLibrary ==
    \/ \E token \in LookupTokens : Lookup(token)
    \/ \E token \in LookupTokens : HasSign(token)
    \/ \E dur \in Probes(libFiles), saved \in BOOLEAN :
          Refresh(ListingIn(dirOrder, libFiles), dur, saved)
    \/ \E dur \in Probes(libFiles), saved \in BOOLEAN : Startup(dur, saved)
    \/ \E f \in LibraryUniverse : AddLibFile(f)
    \/ \E f \in LibraryUniverse : RemoveLibFile(f)
    \/ \E letters \in LibLetterSets : SetLetterClips(letters)
    \/ LoseIndexFile
    \/ GarbleIndexFile

SpecLibrary == InitLibraryIndex /\ [][NextLibrary]_vars

(***************************************************************************)
(* LibraryIndex under threads: nothing serialises get_sign_video and       *)
(* refresh, so a lookup and a rebuild interleave between their reads and   *)
(* writes of self._index and self._finger.  The media directory changes    *)
(* only while both threads are at rest.                                    *)
(***************************************************************************)
AtRest == reader.pc = "idle" /\ rebuilder.pc = "idle"

\* The consistent states current when a lookup starts: the published one, or
\* during a rebuild the one it replaces and the one it is about to publish.
CurrentStates ==
    IF rebuilder.pc = "idle" THEN {<<index, finger>>}
    ELSE {rebuilder.pre, <<index, build_finger(fingerFiles)>>}

\* Lines 88-100 of get_sign_video: the read of self._index, and the return
\* of the recorded video when there is one.
LookupIndex(token) ==
    /\ reader.pc = "idle"
    /\ LET t   == upper(strip(token))
           hit == /\ t \in DOMAIN index
                  /\ index[t].primary # None
                  /\ index[t].primary \in libFiles
       IN IF hit
          THEN /\ reader' = [ReaderIdle EXCEPT !.token = token, !.ok = CurrentStates]
               /\ out' = Outcome("get_sign_video", token,
                                 Return(get_sign_video(index, finger, libFiles, token)))
          ELSE /\ reader' = [pc |-> "fallback", token |-> token, idx |-> index,
                             ok |-> CurrentStates]
               /\ out' = NoOutcome
    /\ UNCHANGED <<apiVars, libFiles, fingerFiles, indexFile, index, finger, dirOrder, rebuilder,
                   lexVars, composerVars>>

\* Lines 102-108 of get_sign_video: the reads of self._finger.
LookupFinger ==
    /\ reader.pc = "fallback"
    /\ out' = Outcome("get_sign_video", reader.token,
                      Return(get_sign_video(reader.idx, finger, libFiles, reader.token)))
    /\ reader' = [reader EXCEPT !.pc = "idle", !.idx = <<>>]
    /\ UNCHANGED <<apiVars, libFiles, fingerFiles, indexFile, index, finger, dirOrder, rebuilder,
                   lexVars, composerVars>>

\* Line 134 of refresh: self._index = self._build_index()
RefreshIndex(dur, saved) ==
    /\ rebuilder.pc = "idle"
    /\ index' = build_index(ListingIn(dirOrder, libFiles), dur)
    /\ indexFile' = IF saved THEN Stored(index') ELSE indexFile
    /\ rebuilder' = [pc |-> "swapped", pre |-> <<index, finger>>]
    /\ UNCHANGED <<apiVars, libFiles, fingerFiles, finger, dirOrder, reader, out,
                   lexVars, composerVars>>

\* Line 135 of refresh: self._finger = self._build_finger()
RefreshFinger ==
    /\ rebuilder.pc = "swapped"
    /\ finger' = build_finger(fingerFiles)
    /\ rebuilder' = RebuilderIdle
    /\ reader' = IF reader.pc = "fallback"
                 THEN [reader EXCEPT !.ok = @ \cup {<<index, finger'>>}]
                 ELSE reader
    /\ UNCHANGED <<apiVars, libFiles, fingerFiles, indexFile, index, dirOrder, out,
                   lexVars, composerVars>>

\* The files and tokens of the threaded scenario.
ThreadFiles == {F_HI, F_GO_v1}

ThreadTokens == {T_HI, T_42}

InitLibraryThreads == InitLibraryIndex /\ libFiles \subseteq ThreadFiles

NextLibraryThreads ==
    \/ \E token \in ThreadTokens : LookupIndex(token)
    \/ LookupFinger
    \/ \E dur \in Probes(libFiles) : RefreshIndex(dur, TRUE)
    \/ RefreshFinger
    \/ \E f \in ThreadFiles : AtRest /\ AddLibFile(f)
    \/ \E f \in ThreadFiles : AtRest /\ RemoveLibFile(f)
    \/ \E letters \in LibLetterSets : AtRest /\ SetLetterClips(letters)

SpecLibraryThreads == InitLibraryThreads /\ [][NextLibraryThreads]_vars

(***************************************************************************)
(* Bounds of the composer model                                            *)
(***************************************************************************)
MaxPaths == 2            \* longest list handed to concatenate()
MaxClock == 1            \* the clock stops advancing here
MaxCalls == 2            \* concatenate() calls per behaviour

\* The second path contains the character the cache key joins with.
PathUniverse == {"/v/a", "/v/a|/v/a"}

PathLists == UNION {[1..n -> PathUniverse] : n \in 0..MaxPaths}

TicksPerDay == 1

EvictionDays == {0, 1}

ToolOutcomes == {"ok", "nonzero", "exception"}

\* The outcomes of a run that ends by itself.  The actions of the composer
\* make the same state of a nonzero exit and of an exception, up to the
\* record of the outcome; SpecTimeouts tells the two apart.
ExitCodes == {"ok", "nonzero"}

\* What a failed ffmpeg run leaves at its output path.
Leftovers == {"untouched", "partial"}

InitComposer ==
    /\ dirOrder = <<>>
    /\ reader = ReaderIdle
    /\ rebuilder = RebuilderIdle
    /\ libFiles = {}
    /\ fingerFiles = AZ
    /\ index = build_index(<<>>, <<>>)
    /\ indexFile = Stored(index)
    /\ finger = build_finger(fingerFiles)
    /\ InitLexicon
    /\ InitApi
    /\ out = NoOutcome
    /\ ffmpeg \in BOOLEAN
    /\ inputs \in SUBSET PathUniverse
    /\ ComposerIdle

(***************************************************************************)
(* VideoConcat.concatenate, one action per stretch between two waits       *)
(***************************************************************************)
\* The call returns `result`.
Returned(rq, result) == [rq EXCEPT !.pc = "done", !.result = result]

\* A list counts as composed once a call given it returned its cache path,
\* all of its paths existing from the call to the return.
Composed(rq, result) ==
    IF /\ result # NoPath /\ Len(rq.valid) > 1
       /\ rq.valid = rq.video_paths /\ Range(rq.video_paths) \subseteq inputs
    THEN {rq.video_paths} ELSE {}

\* The entries of the argument list that exist when the call is made.
ExistingEntries(video_paths) ==
    LET Exists(p) == p \in inputs IN SelectSeq(video_paths, Exists)

\* Lines 83-101 and the first iteration of _normalise up to its await.
Concatenate(r, video_paths, crossfade, force) ==
    /\ req[r].pc \in {"idle", "done", "cancelled"}
    /\ calls < MaxCalls
    /\ calls' = calls + 1
    /\ LET valid    == valid_paths(video_paths, inputs)
           out_path == cache_path(cache_key(valid))
           call     == [IdleRequest EXCEPT !.video_paths = video_paths,
                                           !.crossfade = crossfade,
                                           !.force = force,
                                           !.tool = ffmpeg,
                                           !.existing = ExistingEntries(video_paths),
                                           !.repeat = video_paths \in okSince,
                                           !.call = calls + 1]
           checked  == [call EXCEPT !.valid = valid]
           keyed    == [checked EXCEPT !.out_path = out_path]
           dst      == Tmp(calls + 1, 1, valid[1], now)
       IN IF ~has_ffmpeg(ffmpeg)
          THEN /\ req' = [req EXCEPT ![r] = Returned(call, NoPath)]
               /\ UNCHANGED <<tmpFiles, okSince>>
          ELSE IF valid = <<>>
          THEN /\ req' = [req EXCEPT ![r] = Returned(checked, NoPath)]
               /\ UNCHANGED <<tmpFiles, okSince>>
          ELSE IF nothing_to_concatenate(valid)
          THEN /\ req' = [req EXCEPT ![r] = Returned(checked, Some(valid[1]))]
               /\ UNCHANGED <<tmpFiles, okSince>>
          ELSE IF cache_hit(force, out_path, DOMAIN cache)
          THEN /\ req' = [req EXCEPT ![r] = Returned(keyed, Some(out_path))]
               /\ okSince' = okSince \cup Composed(keyed, Some(out_path))
               /\ UNCHANGED tmpFiles
          ELSE /\ req' = [req EXCEPT ![r] = [keyed EXCEPT !.pc = "normalise",
                                                          !.i = 1,
                                                          !.dst = Some(dst),
                                                          !.invoked = 1,
                                                          !.created = 1]]
               /\ tmpFiles' = tmpFiles \cup {dst}
               /\ UNCHANGED okSince
    /\ UNCHANGED <<apiVars, resolverVars, ffmpeg, inputs, cache, now>>

\* The ffmpeg run of _normalise for clip i ends: its output joins the list
\* (exit code 0) or is unlinked.  The loop then creates the next temporary
\* file and waits again, or _normalise returns and line 105 is reached.
NormaliseDone(r, outcome) ==
    /\ req[r].pc = "normalise"
    /\ LET rq   == req[r]
           dst  == rq.dst[1]
           norm == IF normalise_ok(outcome) THEN Append(rq.normalised, dst)
                   ELSE rq.normalised
           kept == IF normalise_ok(outcome) THEN tmpFiles \cup {dst} ELSE tmpFiles \ {dst}
           next == Tmp(rq.call, rq.i + 1, rq.valid[rq.i + 1], now)
           ran  == [rq EXCEPT !.results = Append(@, outcome)]
       IN IF more_clips(rq.i, rq.valid)
          THEN /\ req' = [req EXCEPT ![r] = [ran EXCEPT !.normalised = norm,
                                                       !.i = rq.i + 1,
                                                       !.dst = Some(next),
                                                       !.invoked = rq.invoked + 1,
                                                       !.created = rq.created + 1]]
               /\ tmpFiles' = kept \cup {next}
          ELSE IF norm = <<>>
          THEN /\ req' = [req EXCEPT ![r] =
                            Returned([ran EXCEPT !.normalised = norm, !.dst = <<>>], NoPath)]
               /\ tmpFiles' = kept
          ELSE /\ req' = [req EXCEPT ![r] =
                            [ran EXCEPT !.normalised = norm, !.dst = <<>>, !.pc = "compose"]]
               /\ tmpFiles' = kept
    /\ UNCHANGED <<apiVars, resolverVars, ffmpeg, inputs, cache, okSince, now, calls>>

\* The caller cancels the task while _normalise waits for its ffmpeg run at
\* line 166.  CancelledError is no Exception, so the handler of line 178
\* does not run; it leaves _normalise and concatenate, whose try of line 108
\* has not been entered.  Nothing is unlinked.
Cancel(r) ==
    /\ req[r].pc = "normalise"
    /\ req' = [req EXCEPT ![r] = [req[r] EXCEPT !.pc = "cancelled", !.dst = <<>>]]
    /\ UNCHANGED <<apiVars, resolverVars, ffmpeg, inputs, cache, tmpFiles, okSince, now, calls>>

\* What an ffmpeg run writing to rq.out_path makes of the cache directory
\* `files`: the artifact when it succeeds; when it fails, the directory as it
\* was or a partial file.
Written(files, rq, how, outcome, leftover) ==
    IF outcome = "ok"
    THEN (rq.out_path :> Artifact(Sources(rq.normalised), how, TRUE, now)) @@ files
    ELSE IF leftover = "partial"
    THEN (rq.out_path :> Artifact(Sources(rq.normalised), how, FALSE, now)) @@ files
    ELSE files

\* Lines 108-123: _concat_xfade (one probe per clip, the xfade run and, when
\* that fails, _concat_simple) or _concat_simple alone (list file, ffmpeg
\* run, list file removed); then the temporary clips are removed and the call
\* returns.  probe, xf and sm are how the probes, the xfade run and the
\* concat run end, the
\* latter also when the code does not get to start it.  ffmpeg exits with
\* an error when one of its input clips is no longer there.
ComposeStage(r, probe, xf, xfLeft, sm, smLeft) ==
    /\ req[r].pc = "compose"
    /\ Range(req[r].normalised) \subseteq tmpFiles \/ (xf = "nonzero" /\ sm = "nonzero")
    /\ LET rq       == req[r]
           n        == Len(rq.normalised)
           viaXfade == use_xfade(rq.crossfade, rq.normalised)
           fellBack == viaXfade /\ xf # "ok" /\ xfade_falls_back(xf)
           ranSimple == ~viaXfade \/ fellBack
           afterXf  == IF viaXfade THEN Written(cache, rq, "xfade", xf, xfLeft) ELSE cache
           files    == IF ranSimple THEN Written(afterXf, rq, "simple", sm, smLeft)
                       ELSE afterXf
           ok       == IF ranSimple THEN concat_simple_ok(sm) ELSE xf = "ok"
           result   == IF ok /\ rq.out_path \in DOMAIN files
                       THEN Some(rq.out_path) ELSE NoPath
           done     == [rq EXCEPT
                          !.probe   = IF viaXfade THEN probe ELSE "none",
                          !.durations = IF viaXfade
                                        THEN [k \in 1..n |->
                                                probe_duration(probe, rq.normalised[k])]
                                        ELSE <<>>,
                          !.xfade   = IF viaXfade THEN xf ELSE "none",
                          !.simple  = IF viaXfade /\ xf = "ok" THEN "none" ELSE sm,
                          !.invoked = @ + (IF viaXfade THEN n + 1 ELSE 0)
                                        + (IF ranSimple THEN 1 ELSE 0),
                          !.created = @ + (IF ranSimple THEN 1 ELSE 0)
                                        + (IF DOMAIN files = DOMAIN cache THEN 0 ELSE 1)]
       IN /\ cache' = files
          /\ req' = [req EXCEPT ![r] = Returned(done, result)]
          /\ tmpFiles' = tmpFiles \ Range(rq.normalised)
          /\ okSince' = okSince \cup Composed(rq, result)
    /\ UNCHANGED <<apiVars, resolverVars, ffmpeg, inputs, now, calls>>

\* VideoConcat.clear_old: every *.mp4 of the cache directory older than the
\* cutoff is deleted, temporary clips included.
ClearOld(older_than_days) ==
    LET cutoff   == now - older_than_days * TicksPerDay
        oldFiles == {k \in DOMAIN cache : cache[k].mtime < cutoff}
        oldTmps  == {t \in tmpFiles : t.mtime < cutoff}
    IN /\ cache' = [k \in DOMAIN cache \ oldFiles |-> cache[k]]
       /\ tmpFiles' = tmpFiles \ oldTmps
       /\ okSince' = {}
       /\ out' = Outcome("clear_old", [older_than_days |-> older_than_days],
                         Return(Cardinality(oldFiles) + Cardinality(oldTmps)))
       /\ UNCHANGED <<apiVars, libVars, lexVars, ffmpeg, inputs, req, now, calls>>

\* The environment: input clips appear and vanish, the toolchain is installed
\* or removed, time passes.
AddInput(p) ==
    /\ p \notin inputs
    /\ inputs' = inputs \cup {p}
    /\ okSince' = {}
    /\ UNCHANGED <<apiVars, resolverVars, ffmpeg, cache, tmpFiles, req, now, calls>>

RemoveInput(p) ==
    /\ p \in inputs
    /\ inputs' = inputs \ {p}
    /\ okSince' = {}
    /\ UNCHANGED <<apiVars, resolverVars, ffmpeg, cache, tmpFiles, req, now, calls>>

SetToolchain(present) ==
    /\ ffmpeg # present
    /\ ffmpeg' = present
    /\ UNCHANGED <<apiVars, resolverVars, inputs, cache, tmpFiles, req, okSince, now, calls>>

Tick ==
    /\ now < MaxClock
    /\ now' = now + 1
    /\ UNCHANGED <<apiVars, resolverVars, ffmpeg, inputs, cache, tmpFiles, req, okSince, calls>>

NextComposer ==
    \/ \E r \in Requests, video_paths \in PathLists, crossfade \in BOOLEAN, force \in BOOLEAN :
          Concatenate(r, video_paths, crossfade, force)
    \/ \E r \in Requests, outcome \in ExitCodes : NormaliseDone(r, outcome)
    \/ \E r \in Requests : Cancel(r)
    \/ \E r \in Requests, xf \in ToolOutcomes, xfLeft \in Leftovers,
          sm \in ToolOutcomes, smLeft \in Leftovers :
          ComposeStage(r, "ok", xf, xfLeft, sm, smLeft)
    \/ \E p \in PathUniverse : AddInput(p)
    \/ \E p \in PathUniverse : RemoveInput(p)
    \/ \E present \in BOOLEAN : SetToolchain(present)

SpecComposer == InitComposer /\ [][NextComposer]_vars

(***************************************************************************)
(* The composer with its maintenance operation: time passes and clear_old  *)
(* runs between the steps of a request; every input clip exists and no     *)
(* crossfade is asked for                                                  *)
(***************************************************************************)
InitEviction ==
    /\ InitComposer
    /\ ffmpeg = TRUE
    /\ inputs = PathUniverse

NextEviction ==
    \/ \E r \in Requests, video_paths \in PathLists, force \in BOOLEAN :
          Concatenate(r, video_paths, FALSE, force)
    \/ \E r \in Requests, outcome \in ExitCodes : NormaliseDone(r, outcome)
    \/ \E r \in Requests : Cancel(r)
    \/ \E r \in Requests, sm \in ToolOutcomes, smLeft \in Leftovers :
          ComposeStage(r, "ok", "nonzero", "untouched", sm, smLeft)
    \/ \E older_than_days \in EvictionDays : ClearOld(older_than_days)
    \/ Tick

SpecEviction == InitEviction /\ [][NextEviction]_vars

(***************************************************************************)
(* The composer with every outcome of every tool run told apart: exit 0,   *)
(* nonzero exit, exception (subprocess.TimeoutExpired is one); every input *)
(* clip exists                                                             *)
(***************************************************************************)
NextTimeouts ==
    \/ \E r \in Requests, video_paths \in PathLists, crossfade \in BOOLEAN, force \in BOOLEAN :
          Concatenate(r, video_paths, crossfade, force)
    \/ \E r \in Requests, outcome \in ToolOutcomes : NormaliseDone(r, outcome)
    \/ \E r \in Requests, probe \in ToolOutcomes, xf \in ToolOutcomes, xfLeft \in Leftovers,
          sm \in ToolOutcomes, smLeft \in Leftovers :
          ComposeStage(r, probe, xf, xfLeft, sm, smLeft)

SpecTimeouts == InitEviction /\ [][NextTimeouts]_vars

(***************************************************************************)
(* The filter graph of _concat_xfade for every list of probed durations    *)
(***************************************************************************)
MaxClips == 4            \* most clips handed to _concat_xfade

\* What _probe_duration can report: a clip shorter than the window, the
\* measured duration, the default.
ProbedDurations == {10, Measured("/v/a"), DefaultDuration}

\* _concat_xfade is called with two clips or more.
DurationLists == UNION {[1..n -> ProbedDurations] : n \in 2..MaxClips}

\* _concat_xfade up to the ffmpeg run: the durations are probed and the
\* filter graph is built.
ConcatXfade(durations) ==
    /\ out' = Outcome("_concat_xfade", [durations |-> durations],
                      Return(xfade_filter(durations, CrossfadeSec)))
    /\ UNCHANGED <<apiVars, libVars, lexVars, composerVars>>

NextXfade == \E durations \in DurationLists : ConcatXfade(durations)

SpecXfade == InitEviction /\ [][NextXfade]_vars

(***************************************************************************)
(* The REST routes POST /deaf and POST /visual next to the WebSocket route *)
(***************************************************************************)
\* The histories a caller sends along.
SentHistories ==
    {<<>>,
     <<Message("system", "s0")>>,
     <<Message("user", "u0"), Message("assistant", "a0")>>,
     <<Message("system", "s0"), Message("user", "u0"), Message("assistant", "a0")>>}

Endpoints == {"deaf", "visual"}

\* deaf_endpoint / visual_endpoint up to the await of get_response: the
\* request's own client gets a copy of the history that was sent.
Post(p, endpoint, history, user_text) ==
    /\ posts[p].pc \in {"idle", "done"}
    /\ LET mode   == ModeOf(endpoint)
           client == WithHistory(temp_client(llm_service), mode, history)
       IN posts' = [posts EXCEPT ![p] =
                       [IdlePost EXCEPT !.pc = "llm",
                                        !.endpoint = endpoint,
                                        !.history = history,
                                        !.user_text = user_text,
                                        !.temp_llm = get_response_sends(client, user_text,
                                                                        TRUE, mode)]]
    /\ UNCHANGED <<llm_service, resolverVars, composerVars>>

\* get_response returns; the route copies the history of its client, then
\* /deaf asks the same client for sign tokens, and the response is sent.
PostReturns(p, reply, asl) ==
    /\ posts[p].pc = "llm"
    /\ LET rq      == posts[p]
           mode    == ModeOf(rq.endpoint)
           replied == get_response_ends(rq.temp_llm, reply, TRUE, mode)
           after   == IF rq.endpoint = "deaf"
                      THEN get_asl_tokens(replied, reply.text, asl)
                      ELSE replied
       IN posts' = [posts EXCEPT ![p] =
                       [rq EXCEPT !.pc = "done",
                                  !.reply = reply,
                                  !.updated_history = HistoryOf(replied, mode),
                                  !.temp_llm = after]]
    /\ UNCHANGED <<llm_service, resolverVars, composerVars>>

\* A turn of the WebSocket route, which talks through the shared client
\* (routes/websocket.py, lines 329 and 445).
WebSocketTurn(mode, reply) ==
    /\ llm_service' = get_response_ends(get_response_sends(llm_service, "ws", TRUE, mode),
                                        reply, TRUE, mode)
    /\ UNCHANGED <<posts, resolverVars, composerVars>>

WebSocketReplies == {Reply("ok", "a2"), Reply("http_400", "sorry")}

NextApi ==
    \/ \E p \in Posts, endpoint \in Endpoints, history \in SentHistories :
          Post(p, endpoint, history, "hi")
    \/ \E p \in Posts, reply \in Replies, asl \in {Reply("ok", "HI"), Reply("exception", "unexpected")} :
          PostReturns(p, reply, asl)
    \/ \E mode \in {"text", "voice"}, reply \in WebSocketReplies : WebSocketTurn(mode, reply)

SpecApi == InitCodec /\ [][NextApi]_vars

(***************************************************************************)
(* Properties of the resolver                                              *)
(***************************************************************************)
\* The library holds a recorded video for the token: an index entry whose
\* primary file exists.
HasRecordedVideo(token) ==
    /\ upper(token) \in DOMAIN index
    /\ index[upper(token)].primary # None
    /\ index[upper(token)].primary \in libFiles

HasLexiconSign(token) == upper(token) \in DOMAIN lexicon

Resolved == out.op = "get_sign_data"

\* C1: a token present both in the video library and in the gesture lexicon
\* resolves to a Video descriptor, never to a Markup descriptor.
C1_VideoBeforeMarkup ==
    (Resolved /\ HasRecordedVideo(out.arg) /\ HasLexiconSign(out.arg))
        => (out.res.kind = "return" /\ out.res.value.method = "video")

\* The descriptor the fixed priority order prescribes for a token.
ExpectedMethod(token) ==
    IF HasRecordedVideo(token) THEN "video"
    ELSE IF HasLexiconSign(token) THEN "sigml"
    ELSE "fingerspell"

\* C2: resolve returns exactly one populated variant chosen in fixed order
\* (video, else lexicon markup, else fingerspelling), and the status is
\* fallback exactly when the token has neither a video nor a lexicon sign.
C2_FixedPriority ==
    Resolved =>
        /\ out.res.kind = "return"
        /\ out.res.value.method = ExpectedMethod(out.arg)
        /\ ("video_url" \in DOMAIN out.res.value) = (ExpectedMethod(out.arg) = "video")
        /\ ("sigml" \in DOMAIN out.res.value) = (ExpectedMethod(out.arg) # "video")
        /\ (out.res.value.status = "fallback") = (ExpectedMethod(out.arg) = "fingerspell")

\* C3: no exception propagates out of a public operation; each returns a
\* result.
C3_NoExceptionEscapes == out.res.kind = "return"

\* The alphabetic characters of a token, upper-cased, in order.
RECURSIVE AlphaChars(_)
AlphaChars(token) ==
    IF token = <<>> THEN <<>>
    ELSE (IF isalpha(Head(token)) THEN <<upperChar(Head(token))>> ELSE <<>>)
         \o AlphaChars(Tail(token))

LettersOf(descriptor) ==
    [i \in 1..Len(descriptor.sigml.signs[1].letters) |->
        descriptor.sigml.signs[1].letters[i].letter]

\* C4: with all 26 letter clips present, a token with no library video and
\* no lexicon entry resolves to a fingerspelling descriptor (status fallback)
\* whose letters are exactly the alphabetic characters of the token in order.
C4_FingerspellLetters ==
    (Resolved /\ DOMAIN finger = AZ
        /\ ~HasRecordedVideo(out.arg) /\ ~HasLexiconSign(out.arg))
        => /\ out.res.kind = "return"
           /\ out.res.value.method = "fingerspell"
           /\ out.res.value.status = "fallback"
           /\ LettersOf(out.res.value) = AlphaChars(out.arg)

\* C5: resolveSequence returns one descriptor per token, in input order, the
\* one at position i being what resolve answers for tokens[i].
C5_SequenceElementwise ==
    out.op = "get_sign_sequence" =>
        /\ out.res.kind = "return"
        /\ Len(out.res.value) = Len(out.arg)
        /\ \A i \in 1..Len(out.arg) :
              Return(out.res.value[i]) =
                  get_sign_data(index, finger, libFiles, lexicon, out.arg[i])

(***************************************************************************)
(* Properties of the composer                                              *)
(***************************************************************************)
Ended(r) == req[r].pc = "done"

\* The cache path of an ordered list of paths.
PathFor(paths) == cache_path(cache_key(paths))

\* A call that repeats, without force, a list composed successfully before,
\* with no input changed and no eviction in between.
RepeatedCall(r) == Ended(r) /\ req[r].repeat /\ ~req[r].force

CacheHitOutcome(r) ==
    /\ req[r].result = Some(PathFor(req[r].video_paths))
    /\ req[r].invoked = 0

\* C6 as stated: after compose(L) succeeded for a list L of two or more
\* existing paths, a second compose(L) without force returns the same cached
\* path and invokes no tool.
C6_RepeatHitsCache == \A r \in Requests : RepeatedCall(r) => CacheHitOutcome(r)

\* C6 amended: the same, provided the toolchain is still installed when the
\* second call is made.
C6_RepeatHitsCacheWithToolchain ==
    \A r \in Requests : (RepeatedCall(r) /\ req[r].tool) => CacheHitOutcome(r)

C6_Witness ==
    \E r \in Requests :
        /\ RepeatedCall(r) /\ req[r].tool
        /\ Len(req[r].video_paths) = 2
        /\ CacheHitOutcome(r)
        /\ PathFor(req[r].video_paths) \in DOMAIN cache

\* The orderings of the entries of a list.
Orderings(paths) ==
    {q \in [1..Len(paths) -> Range(paths)] :
        \A x \in Range(paths) :
            Cardinality({k \in 1..Len(paths) : q[k] = x})
                = Cardinality({k \in 1..Len(paths) : paths[k] = x})}

\* C7: the cache key depends on the exact order of the input paths: a
\* reordering that yields a different list yields a different cache key, also
\* for paths that contain the joining character.
C7_ReorderingChangesKey ==
    \A r \in Requests :
        req[r].out_path # "" =>
            \A q \in Orderings(req[r].valid) :
                q # req[r].valid => PathFor(q) # req[r].out_path

\* A call given a list of which exactly one entry exists.
OneExisting(r) == Ended(r) /\ Len(req[r].existing) = 1

ShortcutOutcome(r) ==
    /\ req[r].result = Some(req[r].existing[1])
    /\ req[r].created = 0
    /\ req[r].invoked = 0

\* C8 as stated: compose on a list with exactly one existing path returns
\* that path unchanged, creates no file and invokes no tool.
C8_SingleShortcut == \A r \in Requests : OneExisting(r) => ShortcutOutcome(r)

\* C8 amended: the same, provided the toolchain is installed when the call
\* is made.
C8_SingleShortcutWithToolchain ==
    \A r \in Requests : (OneExisting(r) /\ req[r].tool) => ShortcutOutcome(r)

C8_Witness ==
    \E r \in Requests :
        /\ OneExisting(r) /\ req[r].tool
        /\ Len(req[r].video_paths) = 2
        /\ ShortcutOutcome(r)

\* C9: compose on an empty list, or on a list none of whose paths exist,
\* returns the unavailable result, creates no file and invokes no tool.
C9_NoValidInput ==
    \A r \in Requests :
        (Ended(r) /\ req[r].existing = <<>>) =>
            /\ req[r].result = NoPath
            /\ req[r].created = 0
            /\ req[r].invoked = 0

C9_Witness ==
    \E r \in Requests :
        /\ Ended(r) /\ req[r].tool
        /\ req[r].video_paths # <<>> /\ req[r].existing = <<>>
        /\ req[r].result = NoPath
        /\ tmpFiles = {}

\* A call whose crossfade run failed (nonzero exit, tool error or timeout)
\* while plain concatenation of the same clips succeeds.
CrossfadeRejected(r) ==
    /\ Ended(r) /\ req[r].crossfade
    /\ req[r].xfade \in {"nonzero", "exception"}
    /\ req[r].simple = "ok"

\* C10: when the crossfade run fails while simple concatenation of the same
\* normalized clips would succeed, compose returns the cache path, which
\* holds the simple-concatenated artifact, and not the unavailable result.
C10_CrossfadeDegrades ==
    \A r \in Requests :
        CrossfadeRejected(r) =>
            /\ req[r].result = Some(req[r].out_path)
            /\ req[r].out_path \in DOMAIN cache
            /\ cache[req[r].out_path].how = "simple"
            /\ cache[req[r].out_path].complete
            /\ cache[req[r].out_path].clips = Sources(req[r].normalised)

C10_Witness ==
    \E r \in Requests :
        /\ CrossfadeRejected(r)
        /\ req[r].xfade = "exception"
        /\ req[r].result = Some(req[r].out_path)
        /\ cache[req[r].out_path].how = "simple"

(***************************************************************************)
(* Properties of the library index                                         *)
(***************************************************************************)
\* C15: a refresh running concurrently with lookups is atomic for them: the
\* answer of every lookup, its fingerspelling fallback included, is the
\* answer of one consistent state, the one before or the one after the
\* refresh, never of a mixture of the two.
C15_AtomicRefresh ==
    (out.op = "get_sign_video" /\ reader.ok # {}) =>
        \E s \in reader.ok :
            out.res.value = get_sign_video(s[1], s[2], libFiles, out.arg)

\* Two mappings agree on tokens, primary paths and variant lists.
SameMapping(a, b) ==
    /\ DOMAIN a = DOMAIN b
    /\ \A k \in DOMAIN a :
          a[k].primary = b[k].primary /\ a[k].variants = b[k].variants

\* C16: rebuilding the index again against the unchanged media directory
\* yields the identical mapping (tokens, primary path per token, variant
\* lists), whatever the duration probes answer the second time.
C16_RebuildIdempotent ==
    out.op = "refresh" =>
        \A dur \in Probes(libFiles) :
            SameMapping(index, build_index(ListingIn(dirOrder, libFiles), dur))

C16_Witness ==
    /\ out.op = "refresh"
    /\ libFiles = LibraryUniverse
    /\ index[T_HI].primary = F_hi
    /\ index[<<"G","O">>].variants = <<F_GO_v1>>

\* C17: at startup the index is loaded from the persisted file keeping
\* exactly the entries whose primary path exists; when the file is missing,
\* unreadable or malformed the index is rebuilt from the media directory;
\* in both cases the constructor returns.
C17_StartupLoad ==
    out.op = "__init__" =>
        /\ out.res.kind = "return"
        /\ IF out.arg.state = "json"
           THEN /\ DOMAIN index =
                     {k \in DOMAIN out.arg.data : out.arg.data[k].primary \in libFiles}
                /\ \A k \in DOMAIN index : index[k] = out.arg.data[k]
           ELSE \E dur \in Probes(libFiles) :
                   index = build_index(ListingIn(dirOrder, libFiles), dur)

C17_Witness ==
    /\ out.op = "__init__"
    /\ out.arg.state = "json"
    /\ T_HI \in DOMAIN out.arg.data
    /\ T_HI \notin DOMAIN index
    /\ libFiles # {}

\* C18: lookup(token), ignoring case and surrounding blanks, returns the
\* recorded video entry if the token has an index entry whose primary file
\* exists; otherwise the fingerspelling composite if and only if every
\* alphabetic character of the token has a letter clip; otherwise None.
C18_Lookup ==
    out.op = "get_sign_video" =>
        LET t == upper(strip(out.arg))
            v == out.res.value
        IN IF t \in DOMAIN index /\ index[t].primary \in libFiles
           THEN /\ v # None
                /\ v.type = "real_human"
                /\ v.token = t
                /\ v.video_path = index[t].primary
           ELSE IF Range(AlphaChars(t)) \subseteq DOMAIN finger
           THEN /\ v # None
                /\ v.type = "fingerspelling"
                /\ [i \in 1..Len(v.letters) |-> v.letters[i].letter] = AlphaChars(t)
           ELSE v = None

C18_Witness ==
    /\ out.op = "get_sign_video"
    /\ out.arg = T_sp_hi
    /\ out.res.value # None
    /\ out.res.value.type = "real_human"
    /\ out.res.value.token = T_HI

\* C19: a token whose primary video file was deleted after the index was
\* built has no video for any operation: lookup returns no video entry and
\* the has-video query answers false.
C19_DeletedVideoAbsent ==
    out.op \in {"get_sign_video", "has_sign"} =>
        LET t == upper(strip(out.arg))
        IN (t \in DOMAIN index /\ index[t].primary # None
               /\ index[t].primary \notin libFiles)
           => IF out.op = "has_sign" THEN out.res.value = FALSE
              ELSE out.res.value = None \/ out.res.value.type # "real_human"

(***************************************************************************)
(* Properties of the composer: failures, temporary files, the toolchain    *)
(***************************************************************************)
\* A call whose normalise stage ran and kept fewer than two clips.
TooFewNormalised(r) ==
    Ended(r) /\ req[r].i > 0 /\ Len(req[r].normalised) < 2

\* C11: if fewer than two of a request's input clips normalize successfully
\* (none or exactly one), compose returns the unavailable result and neither
\* runs the compose stage nor publishes an artifact.
C11_TooFewNormalisedFails ==
    \A r \in Requests :
        TooFewNormalised(r) =>
            /\ req[r].result = NoPath
            /\ req[r].xfade = "none"
            /\ req[r].simple = "none"

\* A call that has ended, by returning or by being cancelled.
Exited(r) == req[r].pc \in {"done", "cancelled"}

\* C12: when a compose call has ended on any exit path, cancellation by the
\* caller included, no temporary file created by that call still exists.
C12_NoTempLeak ==
    \A r \in Requests :
        Exited(r) => \A t \in tmpFiles : t.call # req[r].call

\* C13: if the toolchain is absent when compose is called, compose returns
\* the unavailable result at once for every input list, single-path and
\* cached ones included, without invoking a tool or creating a file.
C13_ToolchainAbsent ==
    \A r \in Requests :
        (Ended(r) /\ ~req[r].tool) =>
            /\ req[r].result = NoPath
            /\ req[r].invoked = 0
            /\ req[r].created = 0
            /\ req[r].i = 0

C13_Witness ==
    \E r \in Requests :
        /\ Ended(r) /\ ~req[r].tool
        /\ Len(req[r].existing) = 2
        /\ PathFor(req[r].existing) \in DOMAIN cache
        /\ ~req[r].force
        /\ req[r].result = NoPath

\* C14: no request is returned a cache path whose file is partially
\* written: the final path only ever holds a complete artifact.
C14_NoPartialArtifact ==
    \A r \in Requests :
        (Ended(r) /\ req[r].out_path \in DOMAIN cache
            /\ req[r].result = Some(req[r].out_path))
            => cache[req[r].out_path].complete

(***************************************************************************)
(* Properties of the gesture codec                                         *)
(***************************************************************************)
\* C20: render never fails: for every token sequence (empty, unknown
\* tokens, tokens without letters) it returns one document holding exactly
\* one fragment per token in input order, the lexicon's fragment where the
\* token has a direct entry and a fingerspelling fragment otherwise.
C20_RenderTotal ==
    out.op = "get_combined_sigml" =>
        /\ out.res.kind = "return"
        /\ out.res.value.tag = "sigml"
        /\ Len(out.res.value.signs) = Len(out.arg)
        /\ \A i \in 1..Len(out.arg) :
              LET sign == out.res.value.signs[i]
              IN IF HasLexiconSign(out.arg[i])
                 THEN sign = lexicon[upper(out.arg[i])]
                 ELSE /\ sign.tag = "fingerspell"
                      /\ [k \in 1..Len(sign.letters) |-> sign.letters[k].letter]
                            = AlphaChars(out.arg[i])

C20_Witness ==
    /\ out.op = "get_combined_sigml"
    /\ out.arg = <<T_42, T_HI>>
    /\ HasLexiconSign(T_HI)
    /\ out.res.value.signs[1].letters = <<>>
    /\ out.res.value.signs[2].tag = "hamgestural_sign"

AddReturned(o) == o.op = "add_sign_to_lexicon" /\ o.res.kind = "return"

\* C21: add_sign_to_lexicon sets exactly the entry of the upper-cased word
\* and leaves every other entry as it was; when it returns, the persisted
\* lexicon equals the in-memory one; the identical call made again changes
\* neither the in-memory nor the persisted lexicon.
C21_AddSignExact ==
    [][AddReturned(out') =>
          LET a == out'.arg
              k == upper(a.word)
          IN /\ DOMAIN lexicon' = DOMAIN lexicon \cup {k}
             /\ lexicon'[k] = create_sigml_sign(a.handshape, a.location,
                                                a.movement, a.description)
             /\ \A t \in DOMAIN lexicon \ {k} : lexicon'[t] = lexicon[t]
             /\ lexiconFile' = Stored(lexicon')
             /\ (AddReturned(out) /\ out.arg = a) =>
                    (lexicon' = lexicon /\ lexiconFile' = lexiconFile)]_vars

\* An entry of the default lexicon was overwritten after another word had
\* been inserted, and the file holds both.
C21_Witness ==
    /\ AddReturned(out)
    /\ out.arg.word = T_HELLO
    /\ lexicon[T_HELLO] = create_sigml_sign("claw", "chin", "tap", "added")
    /\ T_HI \in DOMAIN lexicon
    /\ lexicon[T_HI].handshape # lexicon[T_HELLO].handshape
    /\ lexiconFile = Stored(lexicon)

Constructed(o) == o.op = "SiGMLGenerator.__init__"

\* C22: constructing the generator over a corrupt lexicon file does not
\* fail: it rebuilds the default lexicon, persists it and serves from it.
C22_CorruptLexiconHeals ==
    (Constructed(out) /\ out.arg = Corrupt) =>
        /\ out.res.kind = "return"
        /\ sigml_generator
        /\ lexicon = create_default_lexicon
        /\ lexiconFile = Stored(create_default_lexicon)

\* C23: deleting the lexicon store and restarting loses nothing: for every
\* token the lexicon gives the answer it gave before the deletion, signs
\* added at run time included.
C23_DeletionLosesNothing ==
    [][(Constructed(out') /\ out'.arg = Missing /\ out'.res.kind = "return"
        /\ sigml_generator) =>
          \A t \in Tokens : sigml_has_sign(lexicon', t) = sigml_has_sign(lexicon, t)]_vars

(***************************************************************************)
(* Properties of the cache maintenance                                     *)
(***************************************************************************)
\* The step is a clear_old call: the only operation that leaves the request
\* and the clock alone.
Evicts == out'.op = "clear_old" /\ req' = req /\ now' = now

\* The cached artifacts older than the threshold.
Expired(older_than_days) ==
    {k \in DOMAIN cache : now - cache[k].mtime > older_than_days * TicksPerDay}

\* C24: clear_old deletes exactly the cached artifacts older than the
\* threshold, nothing else, and returns how many it deleted; a step of
\* concatenate deletes no cached artifact and changes none of another key.
C24_EvictionExact ==
    [][/\ Evicts =>
            /\ DOMAIN cache' = DOMAIN cache \ Expired(out'.arg.older_than_days)
            /\ \A k \in DOMAIN cache' : cache'[k] = cache[k]
            /\ tmpFiles' = tmpFiles
            /\ out'.res = Return(Cardinality(Expired(out'.arg.older_than_days)))
       /\ \A r \in Requests :
            req'[r] # req[r] =>
               /\ DOMAIN cache \subseteq DOMAIN cache'
               /\ \A k \in DOMAIN cache \ {req'[r].out_path} : cache'[k] = cache[k]]_vars

\* C26: a file stands at a cache path only as the result of a composition
\* that completed successfully; a call that fails leaves none there.
C26_OnlyCompletedArtifacts ==
    \A k \in DOMAIN cache : cache[k].complete

(***************************************************************************)
(* Properties of the index build                                           *)
(***************************************************************************)
\* The files of the listing that name `token`, variants or not.
FilesOf(listing, token, variant) ==
    LET Names(vf) == /\ upper(BeforeUnderscore(vf.stem)) = token
                     /\ HasUnderscore(vf.stem) = variant
    IN SelectSeq(listing, Names)

\* C27: after an index build, the primary of each token is the first
\* non-variant file of the scan that names it, later ones not replacing it,
\* and its variant list holds the files with an underscore in scan order.
C27_FirstPrimaryWins ==
    out.op = "refresh" =>
        LET listing == ListingIn(dirOrder, libFiles)
        IN \A token \in DOMAIN index :
              /\ index[token].variants = FilesOf(listing, token, TRUE)
              /\ index[token].primary =
                    IF FilesOf(listing, token, FALSE) = <<>> THEN None
                    ELSE Head(FilesOf(listing, token, FALSE))

(***************************************************************************)
(* Properties of the stages of concatenate                                 *)
(***************************************************************************)
\* The entries of `valid` whose ffmpeg run, recorded in `results`, exited
\* with 0.
RECURSIVE KeptOf(_, _)
KeptOf(valid, results) ==
    IF results = <<>> THEN <<>>
    ELSE (IF Head(results) = "ok" THEN <<Head(valid)>> ELSE <<>>)
         \o KeptOf(Tail(valid), Tail(results))

\* The call got to the compose stage.
Composing(r) == req[r].pc = "compose" \/ (Ended(r) /\ req[r].normalised # <<>>)

\* C28: the clips the compose stage gets are exactly the validated inputs
\* whose normalisation succeeded, in their original order; a failed
\* normalisation drops its clip and the loop goes on; the xfade run is
\* started only when crossfade was asked for, and the plain concat run is
\* used when it was not.
C28_ComposeInput ==
    \A r \in Requests :
        LET rq == req[r]
        IN /\ rq.pc = "normalise" => Len(rq.results) = rq.i - 1
           /\ Composing(r) =>
                 /\ Len(rq.results) = Len(rq.valid)
                 /\ Sources(rq.normalised) = KeptOf(rq.valid, rq.results)
           /\ (Composing(r) /\ Ended(r)) =>
                 /\ rq.result # NoPath =>
                       cache[rq.out_path].clips = KeptOf(rq.valid, rq.results)
                 /\ rq.xfade # "none" => rq.crossfade
                 /\ ~rq.crossfade => (rq.xfade = "none" /\ rq.simple # "none")
                 /\ (rq.crossfade /\ Len(rq.normalised) > 1) => rq.xfade # "none"

\* The first of two clips failed to normalise, the second was composed.
C28_Witness ==
    \E r \in Requests :
        /\ Ended(r)
        /\ Len(req[r].valid) = 2
        /\ req[r].results = <<"nonzero", "ok">>
        /\ Len(req[r].normalised) = 1
        /\ req[r].normalised[1].n = 2
        /\ req[r].result = Some(req[r].out_path)

\* The moves of a call from one stage to the next.
Stages ==
    {<<a, b>> : a \in {"idle", "done", "cancelled"}, b \in {"done", "normalise"}}
    \cup {<<"normalise", "compose">>, <<"normalise", "done">>,
          <<"normalise", "cancelled">>, <<"compose", "done">>}

\* C29: the compose stage of a call starts only when the normalisation of
\* each of its clips has ended, well or not; a call validates, looks in the
\* cache, normalises, composes and writes the artifact in this order, and
\* a call that is not cancelled ends by returning a path or by returning
\* None.
C29_StageOrder ==
    [][\A r \in Requests :
          LET a == req[r]
              b == req'[r]
          IN /\ b.pc = "compose" =>
                   /\ b.i = Len(b.valid)
                   /\ Len(b.results) = Len(b.valid)
                   /\ b.dst = <<>>
             /\ a # b => (<<a.pc, b.pc>> \in Stages \/ (a.pc = "normalise" /\ b.pc = "normalise"))
             /\ (b.pc = "normalise" /\ a.pc # "normalise") =>
                   /\ b.valid = valid_paths(b.video_paths, inputs)
                   /\ Len(b.valid) > 1
                   /\ b.out_path = PathFor(b.valid)
                   /\ b.force \/ b.out_path \notin DOMAIN cache
                   /\ b.results = <<>>
             /\ cache' # cache => (a.pc = "compose" /\ b.pc = "done")
             /\ (a # b /\ b.pc = "done") =>
                   \/ b.result = NoPath
                   \/ b.result = Some(b.valid[1]) /\ a.pc # "compose"
                   \/ b.result = Some(b.out_path) /\ b.out_path \in DOMAIN cache']_vars

\* Both clips were tried, the first one failing, before the compose stage.
C29_Witness ==
    \E r \in Requests :
        /\ req[r].pc = "compose"
        /\ req[r].i = 2
        /\ req[r].results = <<"ok", "nonzero">>

\* C30: a tool run that times out ends as one that exits with an error: the
\* probe answers the default duration, the normalised clip is dropped, the
\* xfade run hands over to the plain concat run, and the call whose plain
\* concat run timed out returns None.
C30_TimeoutIsFailure ==
    /\ normalise_ok("exception") = normalise_ok("nonzero")
    /\ xfade_falls_back("exception") = xfade_falls_back("nonzero")
    /\ concat_simple_ok("exception") = concat_simple_ok("nonzero")
    /\ \A p \in PathUniverse :
          /\ probe_duration("exception", p) = DefaultDuration
          /\ ffprobe_duration("exception", p) = DefaultDuration
    /\ \A r \in Requests :
          LET rq == req[r]
          IN /\ \A k \in 1..Len(rq.results) :
                   rq.results[k] = "exception" =>
                      /\ \A j \in 1..Len(rq.normalised) : rq.normalised[j].n # k
                      /\ \A t \in tmpFiles : ~(t.call = rq.call /\ t.n = k)
             /\ Ended(r) =>
                   /\ rq.probe = "exception" =>
                         \A k \in 1..Len(rq.durations) : rq.durations[k] = DefaultDuration
                   /\ rq.xfade = "exception" => rq.simple # "none"
                   /\ rq.simple = "exception" => rq.result = NoPath

\* Probes, xfade run and plain concat run of one call all timed out.
C30_Witness ==
    \E r \in Requests :
        /\ Ended(r)
        /\ req[r].probe = "exception"
        /\ req[r].xfade = "exception"
        /\ req[r].simple = "exception"
        /\ req[r].durations = <<DefaultDuration, DefaultDuration>>
        /\ req[r].result = NoPath

(***************************************************************************)
(* The composer and the REST routes on one event loop                      *)
(***************************************************************************)
\* The event loop runs one coroutine at a time, from one await to the next.
\* concatenate awaits its normalise runs, which are handed to the executor
\* (line 166), and nothing after them: from the return of the last one to
\* its own return (lines 105-123) it runs the probes and the ffmpeg runs of
\* the compose stage with subprocess.run and keeps the loop.
LoopHeld == \E r \in Requests : req[r].pc = "compose"

\* deaf_endpoint is a coroutine of the same loop: it starts, and goes on
\* after its await of asyncio.to_thread, when the loop is free.
LoopPost(p) == ~LoopHeld /\ Post(p, "deaf", <<>>, "hi")

LoopPostReturns(p) ==
    ~LoopHeld /\ PostReturns(p, Reply("ok", "a1"), Reply("ok", "HI"))

\* A step of a request that has nothing to do with the composer.
UnrelatedStep == \E p \in Posts : LoopPost(p) \/ LoopPostReturns(p)

NextLoop ==
    \/ \E r \in Requests, video_paths \in PathLists, crossfade \in BOOLEAN :
          Concatenate(r, video_paths, crossfade, FALSE)
    \/ \E r \in Requests, outcome \in ExitCodes : NormaliseDone(r, outcome)
    \/ \E r \in Requests, xf \in ExitCodes, sm \in ExitCodes :
          ComposeStage(r, "ok", xf, "untouched", sm, "untouched")
    \/ \E p \in Posts : LoopPost(p)
    \/ \E p \in Posts : LoopPostReturns(p)

SpecLoop == InitEviction /\ [][NextLoop]_vars

(***************************************************************************)
(* Properties of the REST routes                                           *)
(***************************************************************************)
\* A history cut to the length the client keeps.
Trimmed(history) ==
    IF Len(history) <= HistoryLimit THEN history
    ELSE IF history[1].role = "system"
    THEN <<history[1]>> \o Last(history, HistoryLimit - 1)
    ELSE Last(history, HistoryLimit)

\* The history a request sends back, from what it was sent and its own
\* turn: the user's text, then the reply or the apology for a failed call;
\* after an HTTP 400 only a leading system message is left.
OwnTurn(history, user_text, reply) ==
    LET asked == Trimmed(Append(history, Message("user", user_text)))
        said  == Trimmed(Append(asked, Message("assistant", reply.text)))
    IN CASE reply.kind = "ok" /\ reply.text = "" -> asked
         [] reply.kind = "http_400" ->
               IF said[1].role = "system" THEN <<said[1]>> ELSE <<>>
         [] OTHER -> said

\* C25: a step of POST /deaf or POST /visual leaves both histories of the
\* shared client as they are, and the history a request returns is a
\* function of the history it was sent and of its own turn, whatever other
\* requests and the WebSocket route do in between.
C25_Stateless ==
    [][/\ posts' # posts => llm_service' = llm_service
       /\ \A p \in Posts :
             posts'[p].pc = "done" =>
                posts'[p].updated_history =
                   OwnTurn(posts'[p].history, posts'[p].user_text, posts'[p].reply)]_vars

\* Two requests overlapped while the WebSocket route had filled both shared
\* histories; the first one returned its own three messages.
C25_Witness ==
    /\ posts["p1"].pc = "done"
    /\ posts["p1"].endpoint = "deaf"
    /\ Len(posts["p1"].history) = 3
    /\ posts["p1"].updated_history =
          <<Message("system", "s0"), Message("user", "hi"), Message("assistant", "a1")>>
    /\ posts["p2"].pc = "llm"
    /\ posts["p2"].endpoint = "visual"
    /\ llm_service.text_history # <<>>
    /\ llm_service.voice_history # <<>>

(***************************************************************************)
(* Further properties of the gesture codec                                 *)
(***************************************************************************)
\* The fragment render emits for the one-token list <<word>>.
Rendered(word) == tokens_to_sigml(lexicon, <<word>>).signs[1]

\* The tokens that differ from `word` in letter case at most.
Casings(word) == {t \in Tokens : upper(t) = upper(word)}

\* The upper-cased words the model knows, in and out of the lexicon.
Words == DOMAIN create_default_lexicon \cup {upper(t) : t \in Tokens}

\* C33: has_sign(t) is true exactly when render([t]) emits the lexicon's
\* fragment and not a fingerspelling one, the same for every letter case of
\* t; after add_sign_to_lexicon(t, ...) has_sign(t) is true; the lexicon
\* size is the number of distinct words that have a sign.
C33_HasSignAgrees ==
    /\ out.op = "SiGMLGenerator.has_sign" =>
          /\ out.res.value.has_sign = (Rendered(out.arg).tag # "fingerspell")
          /\ out.res.value.has_sign => Rendered(out.arg) = lexicon[upper(out.arg)]
          /\ \A t \in Casings(out.arg) :
                sigml_has_sign(lexicon, t) = out.res.value.has_sign
          /\ out.res.value.size =
                Cardinality({w \in Words : sigml_has_sign(lexicon, w)})
    /\ AddReturned(out) =>
          /\ sigml_has_sign(lexicon, out.arg.word)
          /\ get_lexicon_size(lexicon) =
                Cardinality({w \in Words : sigml_has_sign(lexicon, w)})

\* has_sign("hello") answered true, with HI added at run time.
C33_Witness ==
    /\ out.op = "SiGMLGenerator.has_sign"
    /\ out.arg = T_hello
    /\ out.res.value.has_sign
    /\ T_HI \in DOMAIN lexicon
    /\ out.res.value.size = Cardinality(DOMAIN create_default_lexicon) + 1

(***************************************************************************)
(* Further properties of the library index                                 *)
(***************************************************************************)
\* C38: a fingerspelling composite that get_sign_video returns holds at
\* least one letter; a token without alphabetic characters and without a
\* video is answered with None.
C38_NoEmptyComposite ==
    out.op = "get_sign_video" =>
        \/ out.res.value = None
        \/ out.res.value.type # "fingerspelling"
        \/ Len(out.res.value.letters) >= 1

\* The index file holds what a rebuild of the present directory produced and
\* the memory holds the same.
PersistedByRebuild ==
    /\ indexFile = Stored(index)
    /\ \E dur \in Probes(libFiles) :
          index = build_index(ListingIn(dirOrder, libFiles), dur)

\* C35: a restart that loads the index file a rebuild persisted, the media
\* directory being unchanged, gives the index the rebuild had in memory:
\* same tokens, primaries and variants, so has_sign, list_signs and
\* coverage_stats answer as before.
C35_RestartEquivalence ==
    [][(out'.op = "__init__" /\ PersistedByRebuild) =>
          /\ SameMapping(index', index)
          /\ list_signs(index') = list_signs(index)
          /\ \A t \in LookupTokens : lib_has_sign(index', t) = lib_has_sign(index, t)
          /\ coverage_stats(index', finger') = coverage_stats(index, finger')]_vars

(***************************************************************************)
(* Further properties of the composer                                      *)
(***************************************************************************)
\* C34: the file at the cache path of a request's list was composed from
\* every path of that list, in order; an artifact made of the clips that
\* normalised, fewer than the list has, is not stored under its key.
C34_ArtifactFromWholeList ==
    \A r \in Requests :
        (req[r].out_path # "" /\ req[r].out_path \in DOMAIN cache) =>
            cache[req[r].out_path].clips = req[r].valid

\* The step ends a forced call in failure, a complete artifact standing at
\* its cache path.
ForcedRebuildFails(r) ==
    /\ req[r].pc \in {"normalise", "compose"}
    /\ req[r].force
    /\ req[r].out_path \in DOMAIN cache
    /\ cache[req[r].out_path].complete
    /\ req'[r].pc = "done"
    /\ req'[r].result = NoPath

\* C36: a forced rebuild that fails leaves the artifact cached for its key
\* as it was, so that a later call without force is returned it.
C36_FailedRebuildKeepsArtifact ==
    [][\A r \in Requests :
          ForcedRebuildFails(r) =>
              /\ req[r].out_path \in DOMAIN cache'
              /\ cache'[req[r].out_path] = cache[req[r].out_path]]_vars

\* The temporary files a call in progress still needs: the clips it has
\* normalised and the one its ffmpeg run is writing.
InUse(r) ==
    IF req[r].pc \in {"normalise", "compose"}
    THEN Range(req[r].normalised) \cup Range(req[r].dst)
    ELSE {}

\* C37: clear_old, whatever its threshold, deletes no file that a call in
\* progress still uses.
C37_EvictionSparesFilesInUse ==
    [][Evicts => \A r \in Requests : InUse(r) \cap tmpFiles \subseteq tmpFiles']_vars

(***************************************************************************)
(* Further properties of the language-model client                         *)
(***************************************************************************)
\* The step is the return of POST /deaf for request p.
DeafReturns(p) ==
    posts[p].pc = "llm" /\ posts'[p].pc = "done" /\ posts'[p].endpoint = "deaf"

\* C39: a get_response call with add_to_history=False changes neither
\* history, however the call of the model ends; get_asl_tokens, which makes
\* such a call, leaves the voice history of its client as it was and the
\* text history as the reply of the route left it.
C39_UnrecordedCallKeepsHistories ==
    [][\A p \in Posts :
          DeafReturns(p) =>
              /\ posts'[p].temp_llm.voice_history = posts[p].temp_llm.voice_history
              /\ posts'[p].temp_llm.text_history = posts'[p].updated_history]_vars

\* The histories the model holds.
Histories ==
    {llm_service.voice_history, llm_service.text_history}
       \cup {posts[p].temp_llm.voice_history : p \in Posts}
       \cup {posts[p].temp_llm.text_history : p \in Posts}

\* `kept` is what is left of `full` when it outgrows the limit: its system
\* message when it starts with one, then its most recent messages in their
\* order, HistoryLimit messages in all.
KeepsHeadAndRecent(kept, full) ==
    IF Len(full) <= HistoryLimit THEN kept = full
    ELSE /\ Len(kept) = HistoryLimit
         /\ full[1].role = "system" => kept[1] = full[1]
         /\ LET from == IF full[1].role = "system" THEN 2 ELSE 1
                 n    == HistoryLimit - from + 1
            IN \A k \in 1..n : kept[from + k - 1] = full[Len(full) - n + k]

\* C40: no history ever holds more than the limit; when the user's message
\* or the reply makes a history outgrow it, a system message at its head
\* stays first and the most recent messages stay, in their order.
C40_HistoryBounded ==
    [][/\ \A history \in Histories' : Len(history) <= HistoryLimit
       /\ \A p \in Posts :
             LET rq   == posts'[p]
                 mode == ModeOf(rq.endpoint)
             IN /\ (posts[p].pc # "llm" /\ rq.pc = "llm") =>
                      KeepsHeadAndRecent(HistoryOf(rq.temp_llm, mode),
                                         Append(rq.history, Message("user", rq.user_text)))
                /\ (posts[p].pc = "llm" /\ rq.pc = "done"
                       /\ rq.reply.kind = "ok" /\ rq.reply.text # "") =>
                      KeepsHeadAndRecent(rq.updated_history,
                                         Append(HistoryOf(posts[p].temp_llm, mode),
                                                Message("assistant", rq.reply.text)))]_vars

\* A request sent a full history headed by a system message: the user's
\* text pushed out the oldest message after the system one.
C40_Witness ==
    /\ posts["p1"].pc = "llm"
    /\ posts["p1"].endpoint = "deaf"
    /\ Len(posts["p1"].history) = HistoryLimit
    /\ posts["p1"].temp_llm.text_history =
          <<Message("system", "s0"), Message("assistant", "a0"), Message("user", "hi")>>

(***************************************************************************)
(* Properties of the crossfade graph                                       *)
(***************************************************************************)
\* The summed durations of the first i clips.
RECURSIVE Cumulative(_, _)
Cumulative(durations, i) ==
    IF i = 0 THEN 0 ELSE Cumulative(durations, i - 1) + durations[i]

\* The graph has one transition per clip after the first, each reading the
\* output of the one before it.
Chained(durations, graph) ==
    /\ Len(graph) = Len(durations) - 1
    /\ \A i \in 1..Len(graph) :
          /\ graph[i].second = i
          /\ graph[i].first = (IF i = 1 THEN VLabel(0) ELSE graph[i - 1].label)
          /\ \A j \in 1..Len(graph) : j # i => graph[j].label # graph[i].label

\* C32 as stated: n clips give n-1 chained transitions, and the offset of
\* the transition into a clip is the summed probed duration of the clips
\* before it minus the overlap window, or 0 when that is negative.
C32_OffsetOneWindow ==
    out.op = "_concat_xfade" =>
        LET durations == out.arg.durations
            graph     == out.res.value
        IN /\ Chained(durations, graph)
           /\ \A i \in 1..Len(graph) :
                 graph[i].offset = Max0(Cumulative(durations, i) - CrossfadeSec)

\* C32 amended: n clips give n-1 chained transitions, and the offset of the
\* transition into a clip is the summed probed duration of the clips before
\* it minus one overlap window for each of them, or 0 when that is negative.
C32_OffsetWindowPerClip ==
    out.op = "_concat_xfade" =>
        LET durations == out.arg.durations
            graph     == out.res.value
        IN /\ Chained(durations, graph)
           /\ \A i \in 1..Len(graph) :
                 /\ graph[i].offset >= 0
                 /\ graph[i].duration = CrossfadeSec
                 /\ graph[i].offset =
                       Max0(Cumulative(durations, i) - i * CrossfadeSec)

\* Four clips, the first shorter than the window: the first offset is
\* clamped to 0, the third one is three windows short of the sum.
C32_Witness ==
    /\ out.op = "_concat_xfade"
    /\ out.arg.durations = <<10, 120, 300, 120>>
    /\ out.res.value[1].offset = 0
    /\ out.res.value[3].offset = 430 - 3 * CrossfadeSec

(***************************************************************************)
(* Properties of the composer on the event loop                            *)
(***************************************************************************)
\* C31: no tool run of a compose request (probe, normalisation, concat or
\* xfade run) occupies the request-handling path: while a request is in its
\* normalise or compose stage, an unrelated request can take a step.
C31_ToolStepsOffTheLoop ==
    \A r \in Requests :
        req[r].pc \in {"normalise", "compose"} => ENABLED UnrelatedStep

====
